---- MODULE Spec2Model ----
(***************************************************************************)
(* PolyField client: the EDM measurement and calibration engine of app.go  *)
(* together with the circle-type handler of the calibration screen.        *)
(*                                                                         *)
(* Numbers.  A float64 of the program is a fixed-point integer here:       *)
(*   lengths    in half millimetres  (1.0675 m = 2135, 5.0 mm = 10),       *)
(*   angles     in half arc-seconds  (1 degree = 7200),                    *)
(*   sin, cos   in units of 1/10000.                                       *)
(* The mean of two parsed readings is exact in these units.                *)
(*                                                                         *)
(* Text.  A device line is a sequence of one-character strings.            *)
(***************************************************************************)
EXTENDS Integers, Sequences, FiniteSets, TLC

\* ------------------------------------------------------------------------
\* Constants of app.go
\* ------------------------------------------------------------------------

\* sdToleranceMm = 3.0 (millimetres)
sdToleranceMm == 3

\* UKA official radii, in half millimetres
UkaRadiusShot == 2135
UkaRadiusDiscus == 2500
UkaRadiusHammer == 2135
UkaRadiusJavelinArc == 16000

\* Tolerances, in half millimetres
ToleranceThrowsCircleMm == 10
ToleranceJavelinMm == 20

\* The command that triggers one EDM read: 0x11 0x0d 0x0a
edmReadCommand == <<17, 13, 10>>

\* windBufferSize = 120 samples
windBufferSize == 120

\* the window of MeasureWind: now.Add(-5 * time.Second), in seconds
windWindowSeconds == 5

\* ------------------------------------------------------------------------
\* Bounds of the model
\* ------------------------------------------------------------------------

\* throws recorded before MeasureThrow is no longer started
MaxThrows == 1
\* SendToScoreboard goroutines pending before a scoreboard is no longer connected
MaxPending == 2
\* wind listeners started before a wind gauge is no longer connected
MaxListeners == 2
\* seconds for which a gauge is fed one sample a second
MaxFeed == 122
\* the time, in seconds, after which no more wind is sent or measured
MaxClock == 8
\* the samples a gauge listened to step by step gets into the buffer
MaxSamples == 2
\* read commands written to an EDM whose responses are followed
MaxCommands == 4
\* throws in the log
MaxLoggedThrows == 2
\* PostResult calls
MaxPosts == 3
\* PostResult calls while the server comes and goes
MaxLivePosts == 2

\* ------------------------------------------------------------------------
\* Arithmetic helpers
\* ------------------------------------------------------------------------

Abs(x) == IF x < 0 THEN -x ELSE x

\* x * s / 10000 rounded to the nearest integer, s a sine or cosine
MulTrig(x, s) ==
    LET p == x * s
    IN  IF p >= 0 THEN (p + 5000) \div 10000 ELSE -((-p + 5000) \div 10000)

RECURSIVE SqrtBetween(_, _, _)
\* the largest r in lo..hi with r*r <= n
SqrtBetween(n, lo, hi) ==
    IF lo >= hi THEN lo
    ELSE LET mid == (lo + hi + 1) \div 2
         IN  IF mid * mid <= n THEN SqrtBetween(n, mid, hi)
             ELSE SqrtBetween(n, lo, mid - 1)

\* sqrt(x*x + y*y) rounded to the nearest integer, for |x|, |y| <= 32767
HypotSmall(x, y) ==
    LET n == x * x + y * y
        r == SqrtBetween(n, 0, 46340)
    IN  IF n - r * r > r THEN r + 1 ELSE r

\* math.Sqrt(x*x + y*y) in half millimetres: exact on the axes, to the nearest
\* half millimetre up to 16 m, and to the nearest k half millimetres beyond
Hypot(x, y) ==
    IF y = 0 THEN Abs(x)
    ELSE IF x = 0 THEN Abs(y)
    ELSE LET m == IF Abs(x) > Abs(y) THEN Abs(x) ELSE Abs(y)
             k == m \div 32768 + 1
         IN  k * HypotSmall(x \div k, y \div k)

\* math.Sin and math.Cos of an angle given in half degrees, on the angles the
\* model's readings produce (any other angle stops the check)
SinHalfDeg(h) ==
    CASE h = 0 -> 0
      [] h = 90 -> 7071
      [] h = 180 -> 10000
      [] h = 182 -> 9998
      [] h = 184 -> 9994
      [] h = 189 -> 9969
      [] h = 270 -> 7071
      [] h = 360 -> 0
      [] h = 450 -> -7071
      [] h = 540 -> -10000
      [] h = 630 -> -7071
      [] h = 720 -> 0

CosHalfDeg(h) ==
    CASE h = 0 -> 10000
      [] h = 90 -> 7071
      [] h = 180 -> 0
      [] h = 182 -> -175
      [] h = 184 -> -349
      [] h = 189 -> -785
      [] h = 270 -> -7071
      [] h = 360 -> -10000
      [] h = 450 -> -7071
      [] h = 540 -> 0
      [] h = 630 -> 7071
      [] h = 720 -> 10000

\* the angle a is in half arc-seconds
Sin(a) == CASE a % 3600 = 0 -> SinHalfDeg(a \div 3600)
Cos(a) == CASE a % 3600 = 0 -> CosHalfDeg(a \div 3600)

\* x / s * 10000 rounded to the nearest integer, x >= 0 and s > 0
DivTrig(x, s) == (x * 10000 + s \div 2) \div s

\* math.Atan2(y, x) * 180 / math.Pi, brought into 0..360 degrees as the demo
\* generators do, in half arc-seconds; on the axes and the diagonals
Atan2Deg(y, x) ==
    CASE y = 0 /\ x >= 0 -> 0
      [] y > 0 /\ x = y -> 45 * 7200
      [] y > 0 /\ x = 0 -> 90 * 7200
      [] y > 0 /\ x = -y -> 135 * 7200
      [] y = 0 /\ x < 0 -> 180 * 7200
      [] y < 0 /\ x = y -> 225 * 7200
      [] y < 0 /\ x = 0 -> 270 * 7200
      [] y < 0 /\ x = -y -> 315 * 7200

\* fmt's %.0f: to the nearest integer, a tie to the even one; x in halves
RoundHalfEven(x) ==
    LET q == x \div 2
    IN  IF x % 2 = 0 THEN q ELSE IF q % 2 = 0 THEN q ELSE q + 1

\* ------------------------------------------------------------------------
\* Protocol codec
\* ------------------------------------------------------------------------

Digits == {"0", "1", "2", "3", "4", "5", "6", "7", "8", "9"}

DigitVal(c) ==
    CASE c = "0" -> 0 [] c = "1" -> 1 [] c = "2" -> 2 [] c = "3" -> 3
      [] c = "4" -> 4 [] c = "5" -> 5 [] c = "6" -> 6 [] c = "7" -> 7
      [] c = "8" -> 8 [] c = "9" -> 9

IsDigits(s) == Len(s) > 0 /\ \A i \in 1..Len(s) : s[i] \in Digits

RECURSIVE DecVal(_)
DecVal(s) ==
    IF Len(s) = 0 THEN 0
    ELSE 10 * DecVal(SubSeq(s, 1, Len(s) - 1)) + DigitVal(s[Len(s)])

\* strconv.Atoi: an optional sign and at least one decimal digit
Atoi(s) ==
    IF Len(s) > 0 /\ s[1] \in {"+", "-"}
    THEN IF IsDigits(Tail(s))
         THEN [ok |-> TRUE, val |-> IF s[1] = "-" THEN -DecVal(Tail(s)) ELSE DecVal(Tail(s))]
         ELSE [ok |-> FALSE, val |-> 0]
    ELSE IF IsDigits(s) THEN [ok |-> TRUE, val |-> DecVal(s)]
         ELSE [ok |-> FALSE, val |-> 0]

\* strconv.ParseFloat on a decimal without exponent, in half millimetres
ParseFloat(s) ==
    LET neg == Len(s) > 0 /\ s[1] = "-"
        body == IF Len(s) > 0 /\ s[1] \in {"+", "-"} THEN Tail(s) ELSE s
        dots == {i \in 1..Len(body) : body[i] = "."}
        dot == IF dots = {} THEN Len(body) + 1 ELSE CHOOSE i \in dots : \A j \in dots : i <= j
        ip == SubSeq(body, 1, dot - 1)
        fp == SubSeq(body, dot + 1, Len(body))
        wellFormed == /\ Cardinality(dots) <= 1
                      /\ \A i \in 1..Len(ip) : ip[i] \in Digits
                      /\ \A i \in 1..Len(fp) : fp[i] \in Digits
                      /\ Len(ip) + Len(fp) > 0
        half == IF Len(fp) = 0 THEN 0 ELSE (2 * DigitVal(fp[1]) + 5) \div 10
        mag == 2 * DecVal(ip) + half
    IN  IF wellFormed THEN [ok |-> TRUE, val |-> IF neg THEN -mag ELSE mag]
        ELSE [ok |-> FALSE, val |-> 0]

\* parseDDDMMSSAngle: the angle in half arc-seconds, or an error
parseDDDMMSSAngle(angleStr) ==
    IF Len(angleStr) < 6 \/ Len(angleStr) > 7
    THEN [err |-> "invalid angle string length", val |-> 0]
    ELSE LET s == IF Len(angleStr) = 6 THEN <<"0">> \o angleStr ELSE angleStr
             ddd == Atoi(SubSeq(s, 1, 3))
             mm == Atoi(SubSeq(s, 4, 5))
             ss == Atoi(SubSeq(s, 6, 7))
         IN  IF ~ddd.ok \/ ~mm.ok \/ ~ss.ok
             THEN [err |-> "strconv.Atoi", val |-> 0]
             ELSE IF mm.val >= 60 \/ ss.val >= 60
             THEN [err |-> "invalid angle values (MM or SS >= 60)", val |-> 0]
             ELSE [err |-> "", val |-> 2 * (ddd.val * 3600 + mm.val * 60 + ss.val)]

RECURSIVE Fields(_, _)
\* strings.Fields: the maximal runs of non-space characters; cur is the run
\* being read
Fields(s, cur) ==
    IF Len(s) = 0 THEN (IF Len(cur) = 0 THEN <<>> ELSE <<cur>>)
    ELSE IF Head(s) \in {" ", "\n"}
         THEN (IF Len(cur) = 0 THEN <<>> ELSE <<cur>>) \o Fields(Tail(s), <<>>)
         ELSE Fields(Tail(s), Append(cur, Head(s)))

NoParsed == [SlopeDistanceMm |-> 0, VAzDecimal |-> 0, HARDecimal |-> 0]

\* parseEDMResponseString
parseEDMResponseString(raw) ==
    LET parts == Fields(raw, <<>>)
    IN  IF Len(parts) < 4
        THEN [err |-> "malformed response", reading |-> NoParsed]
        ELSE LET sd == ParseFloat(parts[1])
                 vaz == parseDDDMMSSAngle(parts[2])
                 har == parseDDDMMSSAngle(parts[3])
             IN  IF ~sd.ok THEN [err |-> "strconv.ParseFloat", reading |-> NoParsed]
                 ELSE IF vaz.err # "" THEN [err |-> vaz.err, reading |-> NoParsed]
                 ELSE IF har.err # "" THEN [err |-> har.err, reading |-> NoParsed]
                 ELSE [err |-> "",
                       reading |-> [SlopeDistanceMm |-> sd.val,
                                    VAzDecimal |-> vaz.val,
                                    HARDecimal |-> har.val]]

\* ------------------------------------------------------------------------
\* The lines the EDM answers with (each ends with the newline ReadString
\* stops at)
\* ------------------------------------------------------------------------

\* "0010000 0900000 0000000 85": aimed at the circle centre from 10 m
LineCentre ==
    <<"0", "0", "1", "0", "0", "0", "0", " ", "0", "9", "0", "0", "0", "0", "0", " ", "0", "0", "0", "0", "0", "0", "0", " ", "8", "5", "\n">>

\* "0010003 0920000 0900000 85": 3 mm further, other angles
LineCentreB ==
    <<"0", "0", "1", "0", "0", "0", "3", " ", "0", "9", "2", "0", "0", "0", "0", " ", "0", "9", "0", "0", "0", "0", "0", " ", "8", "5", "\n">>

\* "0011250 0900000 0000000 85": 1.250 m beyond the centre
LineEdge ==
    <<"0", "0", "1", "1", "2", "5", "0", " ", "0", "9", "0", "0", "0", "0", "0", " ", "0", "0", "0", "0", "0", "0", "0", " ", "8", "5", "\n">>

\* "0011254 0900000 0000000 85": 4 mm further than LineEdge
LineEdgeB ==
    <<"0", "0", "1", "1", "2", "5", "4", " ", "0", "9", "0", "0", "0", "0", "0", " ", "0", "0", "0", "0", "0", "0", "0", " ", "8", "5", "\n">>

\* "0010000 0900000 0000000": three fields
LineShort ==
    <<"0", "0", "1", "0", "0", "0", "0", " ", "0", "9", "0", "0", "0", "0", "0", " ", "0", "0", "0", "0", "0", "0", "0", "\n">>

\* "0010000 0906000 0000000 85": 60 minutes
LineBadAngle ==
    <<"0", "0", "1", "0", "0", "0", "0", " ", "0", "9", "0", "6", "0", "0", "0", " ", "0", "0", "0", "0", "0", "0", "0", " ", "8", "5", "\n">>

\* "0060000 0900000 0000000 85": a landing point 60 m from the instrument,
\* beyond the centre
LineThrowFar ==
    <<"0", "0", "6", "0", "0", "0", "0", " ", "0", "9", "0", "0", "0", "0", "0", " ", "0", "0", "0", "0", "0", "0", "0", " ", "8", "5", "\n">>

\* "0030000 0900000 1800000 85": a landing point 30 m from the instrument, on
\* the side away from the centre
LineThrowBehind ==
    <<"0", "0", "3", "0", "0", "0", "0", " ", "0", "9", "0", "0", "0", "0", "0", " ", "1", "8", "0", "0", "0", "0", "0", " ", "8", "5", "\n">>

\* "0010000 0900000 3590000 85": one degree to the left of the zero direction
LineLeftOfZero ==
    <<"0", "0", "1", "0", "0", "0", "0", " ", "0", "9", "0", "0", "0", "0", "0", " ", "3", "5", "9", "0", "0", "0", "0", " ", "8", "5", "\n">>

\* "0010000 0900000 0010000 85": one degree to the right of it
LineRightOfZero ==
    <<"0", "0", "1", "0", "0", "0", "0", " ", "0", "9", "0", "0", "0", "0", "0", " ", "0", "0", "1", "0", "0", "0", "0", " ", "8", "5", "\n">>

\* the lines of an instrument aimed near its zero direction
BearingLines == {LineCentre, LineLeftOfZero, LineRightOfZero, LineShort}

DeviceLines == {LineCentre, LineCentreB, LineEdge, LineEdgeB, LineShort, LineBadAngle}

\* the lines of a calibration session: a reading of the centre, one of the
\* edge, and one that does not parse
CalibrationLines == {LineCentre, LineEdge, LineShort}

\* ------------------------------------------------------------------------
\* State
\* ------------------------------------------------------------------------

\* the device roles of the registry; calibration is keyed by the same strings
DevRoles == {"edm", "scoreboard"}
\* the roles an EDM is connected as and calibrated for
EdmRoles == {"edm"}
\* the role a wind gauge is connected as: the one that gets a listener
WindRoles == {"wind"}
\* every role of the registry
AllRoles == DevRoles \cup WindRoles

CircleTypes == {"SHOT", "DISCUS", "HAMMER", "JAVELIN_ARC"}

VARIABLES
    demoMode,           \* App.demoMode
    devices,            \* App.devices: role -> Device, with whether its Conn is open
    CalibrationStore,   \* App.CalibrationStore: role -> EDMCalibrationData
    demoSim,            \* App.demoSim: role -> DemoSimulation
    throwCoordinates,   \* App.throwCoordinates
    call,               \* the operation in flight, with what it captured
    ret,                \* the result of the operation that returned last, until
                        \* its caller takes it
    sbTasks,            \* SendToScoreboard goroutines started and not yet run
    sbWritten,          \* the values written to a scoreboard connection
    verified,           \* history: an in-tolerance VerifyCircleEdge completed since
                        \* the last centre, circle-type change or reset of the role
    openConns,          \* role -> the connections opened for the role and not closed
    listeners,          \* the StartWindListener goroutines, in the order started
    windBuffer,         \* App.windBuffer
    lastScan,           \* the line a listener scanned last, with its arrival time
    now,                \* time.Now(), in seconds
    stateMux,           \* App.stateMux: the task that holds it while it blocks
    sbWriting,          \* the value that task is writing to the scoreboard
    resultCache,        \* App.resultCache: the payloads, each named by the number
                        \* of the PostResult call that brought it
    cacheFile,          \* the file at App.cacheFilePath
    serverAddress,      \* App.serverAddress
    serverUp,           \* the results server answers 200 to every request
    posts,              \* the PostResult calls, in the order made
    acked,              \* the payloads the server answered 200 for
    lastPass,           \* what the retry loop did at its last tick
    rawLine,            \* the line parseEDMResponseString was given last
    parsedLine,         \* what it returned for that line
    wire                \* the EDM's connection: the read commands written, those
                        \* the EDM has yet to answer, and the responses that wait
                        \* to be read, each named by the number of its command

\* the wind gauge's side of the state
windVars == <<listeners, windBuffer, lastScan, now>>

\* the lock across steps
lockVars == <<stateMux, sbWriting>>

\* result delivery and its cache
cacheVars == <<resultCache, cacheFile, serverAddress, serverUp, posts, acked, lastPass>>

\* the parser of EDM lines on its own
parseVars == <<rawLine, parsedLine>>

\* the EDM's side of its connection
wireVars == <<wire>>

vars == <<demoMode, devices, CalibrationStore, demoSim, throwCoordinates,
          call, ret, sbTasks, sbWritten, verified, openConns, windVars, lockVars, cacheVars, parseVars, wireVars>>

\* Go maps as functions on the keys present
EmptyMap == [k \in {} |-> 0]
Has(m, k) == k \in DOMAIN m
Put(m, k, v) == [x \in (DOMAIN m) \cup {k} |-> IF x = k THEN v ELSE m[x]]
Delete(m, k) == [x \in (DOMAIN m) \ {k} |-> m[x]]

\* a nil pointer is the empty sequence, a pointer to v is <<v>>
Nil == <<>>
Ref(v) == <<v>>

\* the zero value of time.Time, before every instant of the clock
ZeroTime == -1

\* a default record of another circle type
DefaultCalDiscus(devType) ==
    [DeviceID |-> devType,
     SelectedCircleType |-> "DISCUS",
     TargetRadius |-> UkaRadiusDiscus,
     StationCoordinates |-> [X |-> 0, Y |-> 0],
     IsCentreSet |-> FALSE,
     EdgeVerificationResult |-> Nil,
     Timestamp |-> ZeroTime]

\* &EDMCalibrationData{DeviceID: devType, SelectedCircleType: "SHOT", TargetRadius: UkaRadiusShot}
DefaultCal(devType) ==
    [DeviceID |-> devType,
     SelectedCircleType |-> "SHOT",
     TargetRadius |-> UkaRadiusShot,
     StationCoordinates |-> [X |-> 0, Y |-> 0],
     IsCentreSet |-> FALSE,
     EdgeVerificationResult |-> Nil,
     Timestamp |-> ZeroTime]

\* the store, the simulations and the throw log as an operation found them
Snapshot(store, sim, log) == [store |-> store, sim |-> sim, log |-> log]

NoSnapshot == Snapshot(EmptyMap, EmptyMap, <<>>)

\* no operation in flight
Idle ==
    [kind |-> "idle", devType |-> "", pc |-> "", isDemoMode |-> FALSE,
     cal |-> DefaultCal(""), connOpen |-> FALSE, io |-> <<>>,
     r1 |-> NoParsed, r2 |-> NoParsed, reading |-> NoParsed,
     verifiedAtCall |-> FALSE, before |-> NoSnapshot]

\* the return of an operation: err is "" for a nil error; io is what the
\* operation exchanged with the EDM, r1 and r2 the lines it parsed, reading
\* the reading it worked with, forwarded what it handed to the scoreboard
Returned(op, devType, err) ==
    [op |-> op, devType |-> devType, err |-> err, cause |-> "", detail |-> <<>>,
     io |-> <<>>, r1 |-> NoParsed, r2 |-> NoParsed, reading |-> NoParsed,
     forwarded |-> <<>>, isDemoMode |-> FALSE, verifiedAtCall |-> FALSE,
     before |-> NoSnapshot]

\* no result waits for its caller
NoRet == Returned("", "", "")

\* no line scanned yet
NoScan == [line |-> <<>>, at |-> 0]

\* parseEDMResponseString has not been called
NotParsed == [err |-> "", reading |-> NoParsed]

\* nothing written to the EDM and nothing to read from it
NoWire == [sent |-> 0, pending |-> {}, inbox |-> <<>>]

\* no file at cacheFilePath
NoFile == [kind |-> "none", elems |-> <<>>]

\* the retry loop has not ticked
NoPass == [kind |-> "none", attempts |-> <<>>]

Init ==
    /\ demoMode = FALSE
    /\ devices = EmptyMap
    /\ CalibrationStore = EmptyMap
    /\ demoSim = EmptyMap
    /\ throwCoordinates = <<>>
    /\ call = Idle
    /\ ret = NoRet
    /\ sbTasks = <<>>
    /\ sbWritten = {}
    /\ verified = [r \in EdmRoles |-> FALSE]
    /\ openConns = [r \in AllRoles |-> 0]
    /\ listeners = <<>>
    /\ windBuffer = <<>>
    /\ lastScan = NoScan
    /\ now = 0
    /\ stateMux = ""
    /\ sbWriting = Nil
    /\ resultCache = <<>>
    /\ cacheFile = NoFile
    /\ serverAddress = <<>>
    /\ serverUp = FALSE
    /\ posts = <<>>
    /\ acked = {}
    /\ lastPass = NoPass
    /\ rawLine = <<>>
    /\ parsedLine = NotParsed
    /\ wire = NoWire

\* ------------------------------------------------------------------------
\* Device registry
\* ------------------------------------------------------------------------

\* the steps of an acquisition that hold the Device they took from the registry
HoldingDevice == {"write1", "read1", "sleep", "write2", "read2"}

\* d.cancelListener(); d.Conn.Close() on the Device of the role: an
\* acquisition in flight that holds the Device holds a closed connection
CancelAndClose(c, devType) ==
    IF c.devType = devType /\ c.pc \in HoldingDevice
    THEN [c EXCEPT !.connOpen = FALSE]
    ELSE c

\* a listener just started by go a.StartWindListener(devType, ctx): it has not
\* yet looked its Device up, and its context is not done
NewListener(devType) ==
    [role |-> devType, pc |-> "start", cancelled |-> FALSE, connOpen |-> FALSE,
     text |-> <<>>, conn |-> 0]

\* d.cancelListener(); d.Conn.Close() as the listeners of the role see it: the
\* context of the Device's listener is done (those of the listeners started for
\* earlier Devices of the role already are), and the connection a scanning
\* listener holds is closed
CancelListeners(ls, devType) ==
    [i \in DOMAIN ls |->
        IF ls[i].role = devType
        THEN [ls[i] EXCEPT !.cancelled = TRUE, !.connOpen = FALSE]
        ELSE ls[i]]

\* a Device replaced with its connection left as it is
LeavePriorOpen(n, wasOpen) == n

\* d.Conn.Close() on the Device found in the registry: n is the number of
\* open connections of the role, wasOpen whether this one still was
ClosePrior(n, wasOpen) == IF wasOpen THEN n - 1 ELSE n

\* ConnectSerialDevice and ConnectNetworkDevice share their body; opened says
\* whether serial.Open or net.DialTimeout succeeded
Connect(devType, opened) ==
    /\ (opened /\ devType = "scoreboard") => Len(sbTasks) < MaxPending
    /\ (opened /\ devType \in WindRoles) => Len(listeners) < MaxListeners
    /\ call' = IF Has(devices, devType) THEN CancelAndClose(call, devType) ELSE call
    /\ LET had == Has(devices, devType)
           stillOpen == IF had
                        THEN ClosePrior(openConns[devType], devices[devType].Open)
                        ELSE openConns[devType]
           ls == IF had THEN CancelListeners(listeners, devType) ELSE listeners
       IN  IF ~opened
           THEN /\ devices' = IF had
                               THEN [devices EXCEPT ![devType].Open = FALSE]
                               ELSE devices
                /\ openConns' = [openConns EXCEPT ![devType] = stillOpen]
                /\ listeners' = ls
                /\ sbTasks' = sbTasks
           ELSE /\ devices' = Put(devices, devType, [Open |-> TRUE])
                /\ openConns' = [openConns EXCEPT ![devType] = stillOpen + 1]
                /\ listeners' = IF devType \in WindRoles
                                 THEN Append(ls, NewListener(devType))
                                 ELSE ls
                /\ sbTasks' = IF devType = "scoreboard"
                               THEN Append(sbTasks, [text |-> "88:88", cm |-> 0])
                               ELSE sbTasks
    /\ ret' = NoRet
    /\ UNCHANGED <<demoMode, CalibrationStore, demoSim, throwCoordinates,
                   sbWritten, verified, windBuffer, lastScan, now, lockVars, cacheVars, parseVars, wireVars>>

ConnectSerialDevice(devType, opened) == Connect(devType, opened)

ConnectNetworkDevice(devType, opened) == Connect(devType, opened)

\* a disconnect that empties the registry
UnregisterAll(devs, devType) == EmptyMap

\* delete(a.devices, devType)
Unregister(devs, devType) == Delete(devs, devType)

DisconnectDevice(devType) ==
    /\ IF Has(devices, devType)
       THEN /\ call' = CancelAndClose(call, devType)
            /\ openConns' = [openConns EXCEPT
                                ![devType] = ClosePrior(@, devices[devType].Open)]
            /\ listeners' = CancelListeners(listeners, devType)
            /\ devices' = Unregister(devices, devType)
            /\ ret' = Returned("DisconnectDevice", devType, "")
       ELSE /\ ret' = Returned("DisconnectDevice", devType, "not connected")
            /\ UNCHANGED <<call, devices, openConns, listeners>>
    /\ UNCHANGED <<demoMode, CalibrationStore, demoSim, throwCoordinates,
                   sbTasks, sbWritten, verified, windBuffer, lastScan, now, lockVars, cacheVars, parseVars, wireVars>>

\* ------------------------------------------------------------------------
\* Demo flag, circle selection, reset
\* ------------------------------------------------------------------------

SetDemoMode(enabled) ==
    /\ demoMode' = enabled
    /\ demoSim' = IF enabled THEN EmptyMap ELSE demoSim
    /\ ret' = NoRet
    /\ UNCHANGED <<devices, CalibrationStore, throwCoordinates, call,
                   sbTasks, sbWritten, verified,
                   openConns, windVars, lockVars, cacheVars, parseVars, wireVars>>

\* if existingCal, ok := a.CalibrationStore[devType]; ok
\*     { data.Timestamp = existingCal.Timestamp }
SavedCal(store, devType, data) ==
    IF Has(store, devType)
    THEN [data EXCEPT !.Timestamp = store[devType].Timestamp]
    ELSE data

\* SaveCalibration(devType, data): data replaces the record and keeps the
\* timestamp of the record it replaces
SaveCalibration(devType, data) ==
    /\ CalibrationStore' = Put(CalibrationStore, devType,
                               SavedCal(CalibrationStore, devType, data))
    /\ demoSim' = IF demoMode THEN Delete(demoSim, devType) ELSE demoSim
    /\ ret' = Returned("SaveCalibration", devType, "")
    /\ verified' = [verified EXCEPT ![devType] = FALSE]
    /\ UNCHANGED <<demoMode, devices, throwCoordinates, call, sbTasks, sbWritten,
                   openConns, windVars, lockVars, cacheVars, parseVars, wireVars>>

\* UKA_DEFAULTS[type] || 0
UkaDefault(type) ==
    CASE type = "SHOT" -> UkaRadiusShot
      [] type = "DISCUS" -> UkaRadiusDiscus
      [] type = "HAMMER" -> UkaRadiusHammer
      [] type = "JAVELIN_ARC" -> UkaRadiusJavelinArc
      [] OTHER -> 0

\* GetCalibration(devType): the stored record, or the default one
GetCalibration(devType) ==
    IF Has(CalibrationStore, devType) THEN CalibrationStore[devType] ELSE DefaultCal(devType)

\* a circle-type change that keeps the centre of the record
NewCalDataKeepingCentre(calData, type) ==
    [calData EXCEPT !.SelectedCircleType = type,
                    !.TargetRadius = UkaDefault(type),
                    !.EdgeVerificationResult = Nil,
                    !.Timestamp = ZeroTime]

\* the record handleCircleTypeChange builds from the screen's copy calData
NewCalData(calData, type) ==
    [calData EXCEPT !.SelectedCircleType = type,
                    !.TargetRadius = UkaDefault(type),
                    !.IsCentreSet = FALSE,
                    !.EdgeVerificationResult = Nil,
                    !.Timestamp = ZeroTime]

\* the calibration screen's select: every circle type and the "-- Select --"
\* option, whose value is ""; calData is what GetCalibration last gave the screen
handleCircleTypeChange(devType, type) ==
    SaveCalibration(devType, NewCalData(GetCalibration(devType), type))

ResetCalibration(devType) ==
    /\ CalibrationStore' = Delete(CalibrationStore, devType)
    /\ demoSim' = IF demoMode THEN Delete(demoSim, devType) ELSE demoSim
    /\ ret' = Returned("ResetCalibration", devType, "")
    /\ verified' = [verified EXCEPT ![devType] = FALSE]
    /\ UNCHANGED <<demoMode, devices, throwCoordinates, call, sbTasks, sbWritten,
                   openConns, windVars, lockVars, cacheVars, parseVars, wireVars>>

\* ------------------------------------------------------------------------
\* Demo simulation.  rand.Float64() is 0.5 in every draw, which makes every
\* noise term (rand - 0.5) * k zero.  A draw u of the angle of the synthetic
\* station counts halves: u = 1 is 0.5.
\* ------------------------------------------------------------------------

StationAngleDraws == {1}

\* initDemoSimulation: distance = 8.0 + 0.5*7.0 m, angle = u * Pi
initDemoSimulation(dm, devType, u) ==
    LET distance == 16000 + 7000
        angle == u * 180 * 7200
    IN  Put(dm, devType, [stationX |-> MulTrig(distance, Cos(angle)),
                          stationY |-> MulTrig(distance, Sin(angle)),
                          centreReading |-> Nil])

\* generateDemoCentreReading: the simulation map after the call and the reading
generateDemoCentreReading(dm, devType, u) ==
    LET dm1 == IF Has(dm, devType) THEN dm ELSE initDemoSimulation(dm, devType, u)
        sim == dm1[devType]
        distanceToCenter == Hypot(sim.stationX, sim.stationY)
        harDegrees == Atan2Deg(-sim.stationY, -sim.stationX)
        vazDegrees == (88 + 2) * 7200
        slopeDistance == DivTrig(distanceToCenter, Sin(vazDegrees))
        reading == [SlopeDistanceMm |-> slopeDistance,
                    VAzDecimal |-> vazDegrees,
                    HARDecimal |-> harDegrees]
    IN  [sim |-> [dm1 EXCEPT ![devType].centreReading = Ref(reading)],
         reading |-> reading]

\* the reading from the station of sim to the point (px, py), at the vertical
\* angle of the stored centre reading
DemoReadingTo(sim, px, py) ==
    LET deltaX == px - sim.stationX
        deltaY == py - sim.stationY
        vazDegrees == sim.centreReading[1].VAzDecimal
    IN  [SlopeDistanceMm |-> DivTrig(Hypot(deltaX, deltaY), Sin(vazDegrees)),
         VAzDecimal |-> vazDegrees,
         HARDecimal |-> Atan2Deg(deltaY, deltaX)]

\* the fallback of the edge and throw generators
DemoWithCentre(dm, devType, u) ==
    IF ~Has(dm, devType) \/ dm[devType].centreReading = Nil
    THEN generateDemoCentreReading(dm, devType, u).sim
    ELSE dm

\* generateDemoEdgeReading: edgeAngle = 0.5 * 2 Pi, effectiveRadius = targetRadius
generateDemoEdgeReading(dm, devType, targetRadius, u) ==
    LET dm1 == DemoWithCentre(dm, devType, u)
        edgeAngle == 180 * 7200
    IN  [sim |-> dm1,
         reading |-> DemoReadingTo(dm1[devType],
                                   MulTrig(targetRadius, Cos(edgeAngle)),
                                   MulTrig(targetRadius, Sin(edgeAngle)))]

\* minThrow + 0.5 * (maxThrow - minThrow), in half millimetres
DemoThrowDistance(circleType) ==
    CASE circleType = "SHOT" -> 26000
      [] circleType = "DISCUS" -> 90000
      [] circleType = "HAMMER" -> 95000
      [] circleType = "JAVELIN_ARC" -> 120000
      [] OTHER -> 65000

\* generateDemoThrowReading: throwAngle = (0.5 - 0.5) * Pi / 3 = 0
generateDemoThrowReading(dm, devType, targetRadius, circleType, u) ==
    LET dm1 == DemoWithCentre(dm, devType, u)
        totalDistanceFromCentre == DemoThrowDistance(circleType) + targetRadius
    IN  [sim |-> dm1,
         reading |-> DemoReadingTo(dm1[devType], totalDistanceFromCentre, 0)]

\* GetReliableEDMReading in demo mode: 10000 + 0.5*15000 mm, 92 + 0.5*5 degrees,
\* 0.5 * 360 degrees
DemoRandomReading ==
    [SlopeDistanceMm |-> 2 * 17500, VAzDecimal |-> 189 * 3600, HARDecimal |-> 180 * 7200]

\* ------------------------------------------------------------------------
\* Geometry of the calibration and measurement operations
\* ------------------------------------------------------------------------

\* horizontalDistance := sdMeters * math.Sin(vazRad)
HorizontalDistance(reading) == MulTrig(reading.SlopeDistanceMm, Sin(reading.VAzDecimal))

\* the point the reading aims at, relative to the instrument
PointOffset(reading) ==
    [X |-> MulTrig(HorizontalDistance(reading), Cos(reading.HARDecimal)),
     Y |-> MulTrig(HorizontalDistance(reading), Sin(reading.HARDecimal))]

\* the station put where the reading aims, its signs not reversed
StationAtTarget(reading) == PointOffset(reading)

\* SetCircleCentre: the station relative to the circle centre
StationFrom(reading) ==
    [X |-> -PointOffset(reading).X, Y |-> -PointOffset(reading).Y]

\* station coordinates + offset
AbsolutePoint(cal, reading) ==
    [X |-> cal.StationCoordinates.X + PointOffset(reading).X,
     Y |-> cal.StationCoordinates.Y + PointOffset(reading).Y]

\* the tolerance of the throws circles applied to every circle type
ToleranceCircleOnly(circleType) == ToleranceThrowsCircleMm

\* toleranceMm := ToleranceThrowsCircleMm; if circleType == "JAVELIN_ARC" { ... }
ToleranceFor(circleType) ==
    IF circleType = "JAVELIN_ARC" THEN ToleranceJavelinMm ELSE ToleranceThrowsCircleMm

\* VerifyCircleEdge: the EdgeVerificationResult of a reading
EdgeResult(cal, reading) ==
    LET p == AbsolutePoint(cal, reading)
        measuredRadius == Hypot(p.X, p.Y)
        diffMm == measuredRadius - cal.TargetRadius
        toleranceMm == ToleranceFor(cal.SelectedCircleType)
    IN  [MeasuredRadius |-> measuredRadius,
         DifferenceMm |-> diffMm,
         IsInTolerance |-> Abs(diffMm) <= toleranceMm,
         ToleranceAppliedMm |-> toleranceMm]

\* fmt.Sprintf("%.2f", d): d in half millimetres, the result in centimetres
FormatCm(d) ==
    IF d >= 0 THEN (d + 10) \div 20 ELSE -((-d + 10) \div 20)

\* a throw measured from the instrument instead of the centre
ThrowFromInstrument(cal, reading) ==
    LET p == PointOffset(reading)
        distanceFromInstrument == Hypot(p.X, p.Y)
    IN  [X |-> p.X, Y |-> p.Y,
         Distance |-> distanceFromInstrument - cal.TargetRadius,
         CircleType |-> cal.SelectedCircleType,
         EDMReading |-> <<RoundHalfEven(reading.SlopeDistanceMm),
                          reading.VAzDecimal, reading.HARDecimal>>]

\* MeasureThrow: the ThrowCoordinate of a reading
ThrowFrom(cal, reading) ==
    LET p == AbsolutePoint(cal, reading)
        distanceFromCentre == Hypot(p.X, p.Y)
    IN  [X |-> p.X, Y |-> p.Y,
         Distance |-> distanceFromCentre - cal.TargetRadius,
         CircleType |-> cal.SelectedCircleType,
         EDMReading |-> <<RoundHalfEven(reading.SlopeDistanceMm),
                          reading.VAzDecimal, reading.HARDecimal>>]

\* ------------------------------------------------------------------------
\* Reliable reading acquirer: GetReliableEDMReading and _triggerSingleEDMRead,
\* one action per exchange with the device
\* ------------------------------------------------------------------------

\* what a step of the operation in flight passes on to its caller
Outcome(err) ==
    [Returned(call.kind, call.devType, err) EXCEPT
        !.isDemoMode = call.isDemoMode,
        !.verifiedAtCall = call.verifiedAtCall,
        !.before = call.before]

\* a step of the operation in flight that returns nothing yet
Proceed(c) ==
    /\ call' = c
    /\ ret' = NoRet
    /\ UNCHANGED <<CalibrationStore, demoSim, throwCoordinates>>

\* return nil, err where the failed step leaves the record cal
FailStoring(err, cause, detail, io, r2) ==
    /\ ret' = [Outcome(err) EXCEPT !.cause = cause, !.detail = detail, !.io = io,
                                   !.r1 = call.r1, !.r2 = r2]
    /\ call' = Idle
    /\ CalibrationStore' = Put(CalibrationStore, call.devType, call.cal)
    /\ UNCHANGED <<demoSim, throwCoordinates>>

\* return nil, err: the operation in flight ends without a value
Fail(err, cause, detail, io, r2) ==
    /\ ret' = [Outcome(err) EXCEPT !.cause = cause, !.detail = detail, !.io = io,
                                   !.r1 = call.r1, !.r2 = r2]
    /\ call' = Idle
    /\ UNCHANGED <<CalibrationStore, demoSim, throwCoordinates>>

\* the comparison with the tolerance itself rejected
ReadingsConsistentStrict(r1, r2) ==
    Abs(r1.SlopeDistanceMm - r2.SlopeDistanceMm) < 2 * sdToleranceMm

\* math.Abs(r1.SlopeDistanceMm-r2.SlopeDistanceMm) <= sdToleranceMm
ReadingsConsistent(r1, r2) ==
    Abs(r1.SlopeDistanceMm - r2.SlopeDistanceMm) <= 2 * sdToleranceMm

\* the AveragedEDMReading of two parsed readings
AverageReading(r1, r2) ==
    [SlopeDistanceMm |-> (r1.SlopeDistanceMm + r2.SlopeDistanceMm) \div 2,
     VAzDecimal |-> (r1.VAzDecimal + r2.VAzDecimal) \div 2,
     HARDecimal |-> (r1.HARDecimal + r2.HARDecimal) \div 2]

\* the first critical section: the demo flag and the device of the role
GetReliableEDMReading ==
    /\ call.pc = "acquire"
    /\ IF demoMode
       THEN Proceed([call EXCEPT !.reading = DemoRandomReading, !.pc = "commit"])
       ELSE IF ~Has(devices, call.devType)
       THEN Fail("not connected", "", <<>>, <<>>, NoParsed)
       ELSE Proceed([call EXCEPT !.connOpen = devices[call.devType].Open,
                                 !.pc = "write1"])
    /\ UNCHANGED <<demoMode, devices, sbTasks, sbWritten, verified,
                   openConns, windVars, lockVars, cacheVars, parseVars, wireVars>>

\* which read of the pair a program counter belongs to
FirstOrSecond(pc) == IF pc \in {"write1", "read1"} THEN "first read failed"
                     ELSE "second read failed"

\* a failed read that does not end the acquisition
ContinueAfterFailedRead(pc, cause, io) ==
    Proceed([call EXCEPT !.io = io,
                         !.pc = IF pc \in {"write1", "read1"} THEN "sleep" ELSE "commit"])

\* if e1 != nil { return nil, ... }: a failed read ends the acquisition
AfterFailedRead(pc, cause, io) == Fail(FirstOrSecond(pc), cause, <<>>, io, NoParsed)

\* dev.Conn.Write(edmReadCommand); written says whether the transport took it
TriggerWrite(written) ==
    /\ call.pc \in {"write1", "write2"}
    /\ IF written /\ call.connOpen
       THEN Proceed([call EXCEPT !.io = Append(@, "write"),
                                 !.pc = IF call.pc = "write1" THEN "read1" ELSE "read2"])
       ELSE AfterFailedRead(call.pc, "write", Append(call.io, "write failed"))
    /\ UNCHANGED <<demoMode, devices, sbTasks, sbWritten, verified,
                   openConns, windVars, lockVars, cacheVars, parseVars, wireVars>>

\* the end of GetReliableEDMReading, with both readings parsed
ComparePair(r1, r2, io) ==
    IF ReadingsConsistent(r1, r2)
    THEN Proceed([call EXCEPT !.io = io, !.r2 = r2,
                              !.reading = AverageReading(r1, r2), !.pc = "commit"])
    ELSE Fail("readings inconsistent", "",
              <<RoundHalfEven(r1.SlopeDistanceMm), RoundHalfEven(r2.SlopeDistanceMm)>>,
              io, r2)

\* r.ReadString('\n') and parseEDMResponseString; arrived says whether a line
\* came before the deadline
TriggerRead(arrived, line) ==
    /\ call.pc \in {"read1", "read2"}
    /\ LET parsed == parseEDMResponseString(line)
       IN  IF ~arrived \/ ~call.connOpen
           THEN AfterFailedRead(call.pc, "read", Append(call.io, "read failed"))
           ELSE IF parsed.err # ""
           THEN AfterFailedRead(call.pc, parsed.err, Append(call.io, "parse failed"))
           ELSE IF call.pc = "read1"
           THEN Proceed([call EXCEPT !.io = Append(@, "read"), !.r1 = parsed.reading,
                                     !.pc = "sleep"])
           ELSE ComparePair(call.r1, parsed.reading, Append(call.io, "read"))
    /\ UNCHANGED <<demoMode, devices, sbTasks, sbWritten, verified,
                   openConns, windVars, lockVars, cacheVars, parseVars, wireVars>>

\* the exchange with the responses followed.  dev.Conn.Write(edmReadCommand):
\* the EDM has one more command to answer
WireWrite ==
    /\ call.pc \in {"write1", "write2"}
    /\ call.connOpen
    /\ Proceed([call EXCEPT !.io = Append(@, "write"),
                            !.pc = IF call.pc = "write1" THEN "read1" ELSE "read2"])
    /\ wire' = [wire EXCEPT !.sent = @ + 1, !.pending = @ \cup {wire.sent + 1}]
    /\ UNCHANGED <<demoMode, devices, sbTasks, sbWritten, verified,
                   openConns, windVars, lockVars, cacheVars, parseVars>>

\* the EDM answers the oldest command it has: its response is in the
\* connection, whether or not a read waits for it
DeviceAnswers ==
    /\ wire.pending # {}
    /\ LET k == CHOOSE c \in wire.pending : \A d \in wire.pending : c <= d
       IN  wire' = [wire EXCEPT !.pending = @ \ {k}, !.inbox = Append(@, k)]
    /\ UNCHANGED <<demoMode, devices, CalibrationStore, demoSim, throwCoordinates,
                   call, ret, sbTasks, sbWritten, verified,
                   openConns, windVars, lockVars, cacheVars, parseVars>>

\* r.ReadString('\n') returns the first line in the connection, the response
\* line of some command, and parseEDMResponseString takes it
WireRead(line) ==
    /\ call.pc \in {"read1", "read2"}
    /\ call.connOpen
    /\ wire.inbox # <<>>
    /\ wire' = [wire EXCEPT !.inbox = Tail(@)]
    /\ LET parsed == parseEDMResponseString(line)
       IN  IF parsed.err # ""
           THEN AfterFailedRead(call.pc, parsed.err, Append(call.io, "parse failed"))
           ELSE IF call.pc = "read1"
           THEN Proceed([call EXCEPT !.io = Append(@, "read"), !.r1 = parsed.reading,
                                     !.pc = "sleep"])
           ELSE ComparePair(call.r1, parsed.reading, Append(call.io, "read"))
    /\ UNCHANGED <<demoMode, devices, sbTasks, sbWritten, verified,
                   openConns, windVars, lockVars, cacheVars, parseVars>>

\* the read deadline of a network connection passes with no line in the
\* connection: ReadString returns the timeout
WireReadTimeout ==
    /\ call.pc \in {"read1", "read2"}
    /\ wire.inbox = <<>>
    /\ AfterFailedRead(call.pc, "read", Append(call.io, "read failed"))
    /\ UNCHANGED <<demoMode, devices, sbTasks, sbWritten, verified,
                   openConns, windVars, lockVars, cacheVars, parseVars, wireVars>>

\* time.Sleep(delayBetweenReadsInPair)
SettleDelay ==
    /\ call.pc = "sleep"
    /\ Proceed([call EXCEPT !.io = Append(@, "sleep"), !.pc = "write2"])
    /\ UNCHANGED <<demoMode, devices, sbTasks, sbWritten, verified,
                   openConns, windVars, lockVars, cacheVars, parseVars, wireVars>>

\* the first critical section of an operation: what it captures
Begin(kind, devType) ==
    [Idle EXCEPT !.kind = kind, !.devType = devType, !.isDemoMode = demoMode,
                 !.cal = GetCalibration(devType),
                 !.verifiedAtCall = verified[devType],
                 !.before = Snapshot(CalibrationStore, demoSim, throwCoordinates),
                 !.pc = IF demoMode THEN "demo" ELSE "acquire"]

\* the operation in flight returns without error
Succeed(detail, forwarded) ==
    /\ ret' = [Outcome("") EXCEPT !.detail = detail, !.forwarded = forwarded,
                                  !.io = call.io, !.r1 = call.r1, !.r2 = call.r2,
                                  !.reading = call.reading]
    /\ call' = Idle

\* a caller of the acquirer itself (GetReliableEDMReading is exported)
GetReliableEDMReadingCall(devType) ==
    /\ call = Idle
    /\ Proceed([Begin("GetReliableEDMReading", devType) EXCEPT !.pc = "acquire"])
    /\ UNCHANGED <<demoMode, devices, sbTasks, sbWritten, verified,
                   openConns, windVars, lockVars, cacheVars, parseVars, wireVars>>

GetReliableEDMReadingReturn ==
    /\ call.kind = "GetReliableEDMReading" /\ call.pc = "commit"
    /\ Succeed(<<call.reading>>, <<>>)
    /\ UNCHANGED <<demoMode, devices, CalibrationStore, demoSim,
                   throwCoordinates, sbTasks, sbWritten, verified,
                   openConns, windVars, lockVars, cacheVars, parseVars, wireVars>>

\* ------------------------------------------------------------------------
\* Calibration engine
\* ------------------------------------------------------------------------

SetCircleCentreBegin(devType) ==
    /\ call = Idle
    /\ Proceed(Begin("SetCircleCentre", devType))
    /\ UNCHANGED <<demoMode, devices, sbTasks, sbWritten, verified,
                   openConns, windVars, lockVars, cacheVars, parseVars, wireVars>>

SetCircleCentreDemo(u) ==
    /\ call.kind = "SetCircleCentre" /\ call.pc = "demo"
    /\ LET gen == generateDemoCentreReading(demoSim, call.devType, u)
       IN  /\ demoSim' = gen.sim
           /\ call' = [call EXCEPT !.reading = gen.reading, !.pc = "commit",
                                   !.io = Append(@, "demo")]
    /\ ret' = NoRet
    /\ UNCHANGED <<demoMode, devices, CalibrationStore, throwCoordinates,
                   sbTasks, sbWritten, verified,
                   openConns, windVars, lockVars, cacheVars, parseVars, wireVars>>

\* a centre that keeps the edge verification of the record
CentredCalKeepingEdge(cal, reading) ==
    [cal EXCEPT !.StationCoordinates = StationFrom(reading),
                !.IsCentreSet = TRUE]

\* the record SetCircleCentre stores
CentredCal(cal, reading) ==
    [cal EXCEPT !.StationCoordinates = StationFrom(reading),
                !.IsCentreSet = TRUE,
                !.EdgeVerificationResult = Nil]

\* cal.Timestamp = time.Now().UTC()
StampedAt(cal, t) == [cal EXCEPT !.Timestamp = t]

SetCircleCentreCommit ==
    /\ call.kind = "SetCircleCentre" /\ call.pc = "commit"
    /\ CalibrationStore' = Put(CalibrationStore, call.devType,
                               StampedAt(CentredCal(call.cal, call.reading), now))
    /\ verified' = [verified EXCEPT ![call.devType] = FALSE]
    /\ Succeed(<<>>, <<>>)
    /\ UNCHANGED <<demoMode, devices, demoSim, throwCoordinates,
                   sbTasks, sbWritten,
                   openConns, windVars, lockVars, cacheVars, parseVars, wireVars>>

\* a precondition that asks for a record only
VerifyPreconditionRecordOnly(store, devType) ==
    IF ~Has(store, devType) THEN "must set circle centre first" ELSE ""

\* the error of VerifyCircleEdge's precondition, "" when it holds
VerifyPrecondition(store, devType) ==
    IF ~Has(store, devType) \/ ~store[devType].IsCentreSet
    THEN "must set circle centre first"
    ELSE ""

\* an operation returns the error of its precondition
Refuse(kind, devType, err) ==
    /\ ret' = [Returned(kind, devType, err) EXCEPT
                  !.isDemoMode = demoMode,
                  !.verifiedAtCall = verified[devType],
                  !.before = Snapshot(CalibrationStore, demoSim, throwCoordinates)]
    /\ call' = call
    /\ UNCHANGED <<CalibrationStore, demoSim, throwCoordinates>>

VerifyCircleEdgeBegin(devType) ==
    /\ call = Idle
    /\ IF VerifyPrecondition(CalibrationStore, devType) # ""
       THEN Refuse("VerifyCircleEdge", devType,
                   VerifyPrecondition(CalibrationStore, devType))
       ELSE Proceed(Begin("VerifyCircleEdge", devType))
    /\ UNCHANGED <<demoMode, devices, sbTasks, sbWritten, verified,
                   openConns, windVars, lockVars, cacheVars, parseVars, wireVars>>

VerifyCircleEdgeDemo(u) ==
    /\ call.kind = "VerifyCircleEdge" /\ call.pc = "demo"
    /\ LET gen == generateDemoEdgeReading(demoSim, call.devType, call.cal.TargetRadius, u)
       IN  /\ demoSim' = gen.sim
           /\ call' = [call EXCEPT !.reading = gen.reading, !.pc = "commit",
                                   !.io = Append(@, "demo")]
    /\ ret' = NoRet
    /\ UNCHANGED <<demoMode, devices, CalibrationStore, throwCoordinates,
                   sbTasks, sbWritten, verified,
                   openConns, windVars, lockVars, cacheVars, parseVars, wireVars>>

VerifyCircleEdgeCommit ==
    /\ call.kind = "VerifyCircleEdge" /\ call.pc = "commit"
    /\ LET result == EdgeResult(call.cal, call.reading)
       IN  /\ CalibrationStore' =
                 Put(CalibrationStore, call.devType,
                     [call.cal EXCEPT !.EdgeVerificationResult = Ref(result)])
           /\ verified' = [verified EXCEPT ![call.devType] =
                              IF result.IsInTolerance THEN TRUE ELSE @]
    /\ Succeed(<<>>, <<>>)
    /\ UNCHANGED <<demoMode, devices, demoSim, throwCoordinates,
                   sbTasks, sbWritten,
                   openConns, windVars, lockVars, cacheVars, parseVars, wireVars>>

\* ------------------------------------------------------------------------
\* Measurement engine
\* ------------------------------------------------------------------------

\* a precondition that asks for the centre only, in either mode
MeasurePreconditionCentreOnly(store, devType, isDemoMode) ==
    IF ~Has(store, devType) \/ ~store[devType].IsCentreSet
    THEN "EDM is not calibrated - centre not set"
    ELSE ""

\* the error of MeasureThrow's precondition, "" when it holds
MeasurePrecondition(store, devType, isDemoMode) ==
    IF ~Has(store, devType) \/ ~store[devType].IsCentreSet
    THEN "EDM is not calibrated - centre not set"
    ELSE IF ~isDemoMode /\ (store[devType].EdgeVerificationResult = Nil
                            \/ ~store[devType].EdgeVerificationResult[1].IsInTolerance)
    THEN "EDM must be calibrated with valid edge verification before measurement"
    ELSE ""

MeasureThrowBegin(devType) ==
    /\ call = Idle
    /\ IF MeasurePrecondition(CalibrationStore, devType, demoMode) # ""
       THEN Refuse("MeasureThrow", devType,
                   MeasurePrecondition(CalibrationStore, devType, demoMode))
       ELSE Proceed(Begin("MeasureThrow", devType))
    /\ UNCHANGED <<demoMode, devices, sbTasks, sbWritten, verified,
                   openConns, windVars, lockVars, cacheVars, parseVars, wireVars>>

MeasureThrowDemo(u) ==
    /\ call.kind = "MeasureThrow" /\ call.pc = "demo"
    /\ LET gen == generateDemoThrowReading(demoSim, call.devType, call.cal.TargetRadius,
                                           call.cal.SelectedCircleType, u)
       IN  /\ demoSim' = gen.sim
           /\ call' = [call EXCEPT !.reading = gen.reading, !.pc = "commit",
                                   !.io = Append(@, "demo")]
    /\ ret' = NoRet
    /\ UNCHANGED <<demoMode, devices, CalibrationStore, throwCoordinates,
                   sbTasks, sbWritten, verified,
                   openConns, windVars, lockVars, cacheVars, parseVars, wireVars>>

\* a store that keeps the last throw only
storeLastThrowOnly(log, coord) == <<coord>>

\* a.throwCoordinates = append(a.throwCoordinates, coord)
storeThrowCoordinate(log, coord) == Append(log, coord)

\* storeThrowCoordinate, the formatted result and go a.SendToScoreboard(...)
MeasureThrowCommit ==
    /\ call.kind = "MeasureThrow" /\ call.pc = "commit"
    /\ LET coord == ThrowFrom(call.cal, call.reading)
           cm == FormatCm(coord.Distance)
       IN  /\ throwCoordinates' = storeThrowCoordinate(throwCoordinates, coord)
           /\ sbTasks' = Append(sbTasks, [text |-> "%.2f", cm |-> cm])
           /\ Succeed(<<[text |-> "%.2f m", cm |-> cm]>>, <<[text |-> "%.2f", cm |-> cm]>>)
    /\ UNCHANGED <<demoMode, devices, CalibrationStore, demoSim,
                   sbWritten, verified,
                   openConns, windVars, lockVars, cacheVars, parseVars, wireVars>>

\* one SendToScoreboard goroutine runs: the i-th one started; written says
\* whether the transport took the bytes
SendToScoreboard(i, written) ==
    /\ i \in 1..Len(sbTasks)
    /\ sbTasks' = SubSeq(sbTasks, 1, i - 1) \o SubSeq(sbTasks, i + 1, Len(sbTasks))
    /\ sbWritten' =
          IF ~demoMode /\ Has(devices, "scoreboard") /\ written
             /\ devices["scoreboard"].Open
          THEN sbWritten \cup {sbTasks[i]}
          ELSE sbWritten
    /\ UNCHANGED <<demoMode, devices, CalibrationStore, demoSim,
                   throwCoordinates, call, ret, verified,
                   openConns, windVars, lockVars, cacheVars, parseVars, wireVars>>

\* SendToScoreboard as its goroutine runs it: a.stateMux.Lock() with the
\* unlock deferred, then the early returns, or scoreboard.Conn.Write(...)
\* entered with the lock held.  A write to a closed connection fails at once.
SendToScoreboardBegin(i) ==
    /\ i \in 1..Len(sbTasks)
    /\ stateMux = ""
    /\ sbTasks' = SubSeq(sbTasks, 1, i - 1) \o SubSeq(sbTasks, i + 1, Len(sbTasks))
    /\ IF ~demoMode /\ Has(devices, "scoreboard") /\ devices["scoreboard"].Open
       THEN /\ stateMux' = "SendToScoreboard"
            /\ sbWriting' = Ref(sbTasks[i])
       ELSE UNCHANGED <<stateMux, sbWriting>>
    /\ UNCHANGED <<demoMode, devices, CalibrationStore, demoSim,
                   throwCoordinates, call, ret, sbWritten, verified,
                   openConns, windVars, cacheVars, parseVars, wireVars>>

\* scoreboard.Conn.Write returns, whenever the transport lets it, and the
\* deferred a.stateMux.Unlock() runs
SendToScoreboardWriteReturns(written) ==
    /\ stateMux = "SendToScoreboard"
    /\ sbWriting # Nil
    /\ sbWritten' = IF written THEN sbWritten \cup {sbWriting[1]} ELSE sbWritten
    /\ stateMux' = ""
    /\ sbWriting' = Nil
    /\ UNCHANGED <<demoMode, devices, CalibrationStore, demoSim,
                   throwCoordinates, call, ret, sbTasks, verified,
                   openConns, windVars, cacheVars, parseVars, wireVars>>

\* a.throwCoordinates = make([]ThrowCoordinate, 0)
ClearThrowCoordinates ==
    /\ throwCoordinates' = <<>>
    /\ ret' = Returned("ClearThrowCoordinates", "", "")
    /\ UNCHANGED <<demoMode, devices, CalibrationStore, demoSim, call,
                   sbTasks, sbWritten, verified,
                   openConns, windVars, lockVars, cacheVars, parseVars, wireVars>>

\* ------------------------------------------------------------------------
\* Wind gauge: parseWindResponse, StartWindListener, MeasureWind.  A wind
\* speed is in tenths of a metre per second; time passes with the steps that
\* take a reading of the clock.
\* ------------------------------------------------------------------------

RECURSIVE Split(_, _)
\* strings.Split(s, ","): cur is the part being read
Split(s, cur) ==
    IF Len(s) = 0 THEN <<cur>>
    ELSE IF Head(s) = "," THEN <<cur>> \o Split(Tail(s), <<>>)
         ELSE Split(Tail(s), Append(cur, Head(s)))

\* strconv.ParseFloat on a signed decimal with at most one fractional digit,
\* in tenths
ParseTenths(s) ==
    LET neg == Len(s) > 0 /\ s[1] = "-"
        body == IF Len(s) > 0 /\ s[1] \in {"+", "-"} THEN Tail(s) ELSE s
        dots == {i \in 1..Len(body) : body[i] = "."}
        dot == IF dots = {} THEN Len(body) + 1 ELSE CHOOSE i \in dots : \A j \in dots : i <= j
        ip == SubSeq(body, 1, dot - 1)
        fp == SubSeq(body, dot + 1, Len(body))
        wellFormed == /\ Cardinality(dots) <= 1
                      /\ \A i \in 1..Len(ip) : ip[i] \in Digits
                      /\ \A i \in 1..Len(fp) : fp[i] \in Digits
                      /\ Len(ip) + Len(fp) > 0
                      /\ Len(fp) <= 1
        mag == 10 * DecVal(ip) + (IF Len(fp) = 0 THEN 0 ELSE DigitVal(fp[1]))
    IN  IF wellFormed THEN [ok |-> TRUE, val |-> IF neg THEN -mag ELSE mag]
        ELSE [ok |-> FALSE, val |-> 0]

\* parseWindResponse: the second comma-separated part, which must begin with a
\* sign (the lines of the model carry no surrounding white space)
parseWindResponse(raw) ==
    LET parts == Split(raw, <<>>)
    IN  IF Len(parts) > 1 /\ Len(parts[2]) > 0 /\ parts[2][1] \in {"+", "-"}
           /\ ParseTenths(parts[2]).ok
        THEN [ok |-> TRUE, val |-> ParseTenths(parts[2]).val]
        ELSE [ok |-> FALSE, val |-> 0]

\* "A,-1.0"
WindMinus == <<"A", ",", "-", "1", ".", "0">>
\* "A,+0.0"
WindZero == <<"A", ",", "+", "0", ".", "0">>
\* "A,+1.0"
WindPlus == <<"A", ",", "+", "1", ".", "0">>
\* "A,0.5": no sign
WindUnsigned == <<"A", ",", "0", ".", "5">>
\* "+1.0": one part
WindOnePart == <<"+", "1", ".", "0">>

WindLines == {WindMinus, WindZero, WindPlus, WindUnsigned, WindOnePart}

\* the connection of the Device registered for the wind gauge, the
\* connections numbered in the order they were opened: each came with a
\* listener, so the one registered is that of the listener started last
RegisteredConn(ls) == Len(ls)

\* the first critical section of StartWindListener: the Device registered for
\* the role now, or none
ListenerStart(i) ==
    /\ i \in 1..Len(listeners)
    /\ listeners[i].pc = "start"
    /\ LET l == listeners[i]
       IN  listeners' =
              [listeners EXCEPT ![i] =
                  IF Has(devices, l.role)
                  THEN [l EXCEPT !.pc = "scan", !.connOpen = devices[l.role].Open,
                                 !.conn = RegisteredConn(listeners)]
                  ELSE [l EXCEPT !.pc = "done"]]
    /\ UNCHANGED <<demoMode, devices, CalibrationStore, demoSim, throwCoordinates,
                   call, ret, sbTasks, sbWritten, verified, openConns,
                   windBuffer, lastScan, now, lockVars, cacheVars, parseVars, wireVars>>

\* a buffer that takes every sample and keeps them all
AppendWindReadingUnbounded(buf, reading) == Append(buf, reading)

\* a.windBuffer = append(a.windBuffer, ...); if len(a.windBuffer) >
\* windBufferSize { a.windBuffer = a.windBuffer[1:] }
AppendWindReading(buf, reading) ==
    LET b == Append(buf, reading)
    IN  IF Len(b) > windBufferSize THEN Tail(b) ELSE b

\* scanner.Scan() returns a line, elapsed seconds after the step before: a
\* listener whose context is done returns, any other takes the text
ListenerLine(i, line, elapsed) ==
    /\ i \in 1..Len(listeners)
    /\ listeners[i].pc = "scan"
    /\ listeners[i].connOpen
    /\ now' = now + elapsed
    /\ IF listeners[i].cancelled
       THEN /\ listeners' = [listeners EXCEPT ![i].pc = "done"]
            /\ UNCHANGED <<windBuffer, lastScan>>
       ELSE /\ lastScan' = [line |-> line, at |-> now']
            /\ windBuffer' =
                  IF parseWindResponse(line).ok
                  THEN AppendWindReading(windBuffer,
                                         [Value |-> parseWindResponse(line).val,
                                          Timestamp |-> now'])
                  ELSE windBuffer
            /\ UNCHANGED listeners
    /\ UNCHANGED <<demoMode, devices, CalibrationStore, demoSim, throwCoordinates,
                   call, ret, sbTasks, sbWritten, verified, openConns, lockVars, cacheVars, parseVars, wireVars>>

\* the listener step by step.  scanner.Scan() returns a line and the select
\* finds the context done, or not: then the listener holds scanner.Text() and
\* goes on to a.stateMux.Lock()
ListenerScanned(i, line) ==
    /\ i \in 1..Len(listeners)
    /\ listeners[i].pc = "scan"
    /\ listeners[i].connOpen
    /\ listeners' = [listeners EXCEPT ![i] =
                        IF @.cancelled THEN [@ EXCEPT !.pc = "done"]
                        ELSE [@ EXCEPT !.pc = "append", !.text = line]]
    /\ UNCHANGED <<demoMode, devices, CalibrationStore, demoSim, throwCoordinates,
                   call, ret, sbTasks, sbWritten, verified, openConns,
                   windBuffer, lastScan, now, lockVars, cacheVars, parseVars, wireVars>>

\* if val, ok := a.parseWindResponse(text); ok { a.stateMux.Lock(); append ... }
AppendIfParsed(l, buf, t) ==
    IF parseWindResponse(l.text).ok
    THEN AppendWindReading(buf, [Value |-> parseWindResponse(l.text).val,
                                 Timestamp |-> t])
    ELSE buf

\* the listener takes the lock, appends the sample it holds and goes back to
\* scanner.Scan()
ListenerAppends(i) ==
    /\ i \in 1..Len(listeners)
    /\ listeners[i].pc = "append"
    /\ stateMux = ""
    /\ windBuffer' = AppendIfParsed(listeners[i], windBuffer, now)
    /\ lastScan' = [line |-> listeners[i].text, at |-> now]
    /\ listeners' = [listeners EXCEPT ![i].pc = "scan", ![i].text = <<>>]
    /\ UNCHANGED <<demoMode, devices, CalibrationStore, demoSim, throwCoordinates,
                   call, ret, sbTasks, sbWritten, verified, openConns,
                   now, lockVars, cacheVars, parseVars, wireVars>>

\* scanner.Scan() returns false: the connection was closed, or (eof) the
\* gauge ended the stream
ListenerScanEnds(i, eof) ==
    /\ i \in 1..Len(listeners)
    /\ listeners[i].pc = "scan"
    /\ ~listeners[i].connOpen \/ eof
    /\ listeners' = [listeners EXCEPT ![i].pc = "done"]
    /\ UNCHANGED <<demoMode, devices, CalibrationStore, demoSim, throwCoordinates,
                   call, ret, sbTasks, sbWritten, verified, openConns,
                   windBuffer, lastScan, now, lockVars, cacheVars, parseVars, wireVars>>

RECURSIVE SumValues(_)
SumValues(rs) == IF Len(rs) = 0 THEN 0 ELSE Head(rs).Value + SumValues(Tail(rs))

\* fmt.Sprintf("%+.1f", sum / n), sum in tenths: to the nearest tenth, a tie
\* to the even one
FormatWind(sum, n) ==
    LET a == Abs(sum)
        q == a \div n
        r == a % n
        m == IF 2 * r > n \/ (2 * r = n /\ q % 2 = 1) THEN q + 1 ELSE q
    IN  IF sum < 0 THEN -m ELSE m

\* (rand.Float64() * 4.0) - 2.0 with rand.Float64() = 0.5
DemoWindSpeed == 0

\* a window that takes the samples up to and including five seconds back
InWindowInclusive(reading, t) == reading.Timestamp >= t - windWindowSeconds

\* reading.Timestamp.After(fiveSecondsAgo)
InWindow(reading, t) == reading.Timestamp > t - windWindowSeconds

\* the value MeasureWind returns and hands to the scoreboard
WindResult(tenths) == [text |-> "%+.1f m/s", cm |-> tenths]

\* MeasureWind, called elapsed seconds after the step before
MeasureWind(devType, elapsed) ==
    /\ now' = now + elapsed
    /\ LET readingsInWindow == SelectSeq(windBuffer, LAMBDA r : InWindow(r, now'))
           avg == FormatWind(SumValues(readingsInWindow), Len(readingsInWindow))
           result == IF demoMode THEN WindResult(DemoWindSpeed) ELSE WindResult(avg)
       IN  IF ~demoMode /\ ~Has(devices, devType)
           THEN /\ ret' = Returned("MeasureWind", devType, "wind gauge not connected")
                /\ sbTasks' = sbTasks
           ELSE IF ~demoMode /\ Len(readingsInWindow) = 0
           THEN /\ ret' = Returned("MeasureWind", devType,
                                   "no wind readings in the last 5 seconds")
                /\ sbTasks' = sbTasks
           ELSE /\ ret' = [Returned("MeasureWind", devType, "") EXCEPT
                              !.detail = <<result>>, !.forwarded = <<result>>,
                              !.isDemoMode = demoMode]
                /\ sbTasks' = Append(sbTasks, result)
    /\ UNCHANGED <<demoMode, devices, CalibrationStore, demoSim, throwCoordinates,
                   call, sbWritten, verified, openConns, listeners, windBuffer,
                   lastScan, lockVars, cacheVars, parseVars, wireVars>>

\* ------------------------------------------------------------------------
\* Result delivery and cache: PostResult, addResultToCache, saveResultCache,
\* retryCachedResults.  A payload is named by the number of the PostResult
\* call that brought it, so two calls with equal payloads stay apart.
\* ------------------------------------------------------------------------

\* what a.httpClient.Do gives: status 200, another status, or an error
Responses == {"200", "500", "neterr"}

\* the answers the results server can give now
ServerResponses == IF serverUp THEN {"200"} ELSE Responses

\* json.MarshalIndent(a.resultCache, "", "  "): a nil slice encodes as null.
\* The cache is saved after an append, when it is not empty, and after a
\* pass, when it is stillCached: nil when no append to it happened.
MarshalIndent(cache) ==
    IF Len(cache) = 0
    THEN [kind |-> "null", elems |-> <<>>]
    ELSE [kind |-> "array", elems |-> cache]

\* os.WriteFile(a.cacheFilePath, data, 0644)
saveResultCache(cache) == MarshalIndent(cache)

\* http.NewRequest("POST", "http://" + addr + "/api/v1/results", ...) parses
\* the URL: a host with a space in it is refused
ValidUrlHost(addr) == \A i \in 1..Len(addr) : addr[i] # " "

\* a.serverAddress = net.JoinHostPort(ip, strconv.Itoa(port)), a string of
\* characters: never empty, and whatever the caller typed as ip
SetServerAddress(addr) ==
    /\ serverAddress' = addr
    /\ UNCHANGED <<demoMode, devices, CalibrationStore, demoSim, throwCoordinates,
                   call, ret, sbTasks, sbWritten, verified, openConns, windVars,
                   lockVars, resultCache, cacheFile, serverUp, posts, acked,
                   lastPass, parseVars, wireVars>>

\* the results server starts or stops answering 200 to every request
SetServerUp(up) ==
    /\ serverUp' = up
    /\ UNCHANGED <<demoMode, devices, CalibrationStore, demoSim, throwCoordinates,
                   call, ret, sbTasks, sbWritten, verified, openConns, windVars,
                   lockVars, resultCache, cacheFile, serverAddress, posts, acked,
                   lastPass, parseVars, wireVars>>

\* the error PostResult returns once the payload is cached
CachedError(resp) ==
    IF resp = "neterr" THEN "network error, result cached"
    ELSE "server error (500), result cached"

\* PostResult up to the server's answer: http.NewRequest fails on an address
\* that is no URL host and nothing is sent; a 200 returns
\* nil; any other answer goes on to addResultToCache
PostResult(addr, resp) ==
    /\ resp \in ServerResponses
    /\ LET id == Len(posts) + 1
       IN  IF ~ValidUrlHost(addr)
           THEN /\ posts' = Append(posts, [pc |-> "done", resp |-> "", addr |-> addr,
                                           err |-> "failed to create request"])
                /\ acked' = acked
           ELSE IF resp = "200"
           THEN /\ posts' = Append(posts, [pc |-> "done", resp |-> resp,
                                           addr |-> addr, err |-> ""])
                /\ acked' = acked \cup {id}
           ELSE /\ posts' = Append(posts, [pc |-> "cache", resp |-> resp,
                                           addr |-> addr, err |-> ""])
                /\ acked' = acked
    /\ UNCHANGED <<demoMode, devices, CalibrationStore, demoSim, throwCoordinates,
                   call, ret, sbTasks, sbWritten, verified, openConns, windVars,
                   lockVars, resultCache, cacheFile, serverAddress, serverUp,
                   lastPass, parseVars, wireVars>>

\* an append that puts the payload first
PrependResult(cache, id) == <<id>> \o cache

\* an append that forgets what the cache held
OverwriteResult(cache, id) == <<id>>

\* a.resultCache = append(a.resultCache, payload)
AppendResult(cache, id) == Append(cache, id)

\* addResultToCache, under the lock, and PostResult's return
addResultToCache(id) ==
    /\ id \in 1..Len(posts)
    /\ posts[id].pc = "cache"
    /\ resultCache' = AppendResult(resultCache, id)
    /\ cacheFile' = saveResultCache(resultCache')
    /\ posts' = [posts EXCEPT ![id].pc = "done", ![id].err = CachedError(posts[id].resp)]
    /\ UNCHANGED <<demoMode, devices, CalibrationStore, demoSim, throwCoordinates,
                   call, ret, sbTasks, sbWritten, verified, openConns, windVars,
                   lockVars, serverAddress, serverUp, acked, lastPass, parseVars, wireVars>>

\* the requests of one pass: each payload of the cache, in order, with the
\* answer it got
Attempts(cache, answers) ==
    [i \in 1..Len(cache) |-> [id |-> cache[i], resp |-> answers[i]]]

\* a pass that drops nothing
StillCachedAll(attempts) == attempts

\* a pass that keeps what was delivered
StillCachedDelivered(attempts) == SelectSeq(attempts, LAMBDA t : t.resp = "200")

\* stillCached: the attempts with err != nil or a status other than 200
StillCached(attempts) == SelectSeq(attempts, LAMBDA t : t.resp # "200")

\* the ids of a sequence of attempts
Ids(attempts) == [i \in 1..Len(attempts) |-> attempts[i].id]

\* one turn of retryCachedResults' loop after <-ticker.C, the lock held
\* throughout
retryCachedResults(answers) ==
    /\ answers \in [1..Len(resultCache) -> ServerResponses]
    /\ IF Len(resultCache) = 0 \/ serverAddress = <<>>
       THEN /\ lastPass' = [kind |-> "idle", attempts |-> <<>>]
            /\ UNCHANGED <<resultCache, cacheFile, acked>>
       ELSE IF ~ValidUrlHost(serverAddress)
       THEN \* req, _ := http.NewRequest(...) is nil and req.Header.Set panics
            \* in the loop's goroutine: the process ends
            /\ lastPass' = [kind |-> "panic", attempts |-> <<>>]
            /\ UNCHANGED <<resultCache, cacheFile, acked>>
       ELSE LET attempts == Attempts(resultCache, answers)
            IN  /\ lastPass' = [kind |-> "pass", attempts |-> attempts]
                /\ resultCache' = Ids(StillCached(attempts))
                /\ cacheFile' = saveResultCache(resultCache')
                /\ acked' = acked \cup {attempts[i].id : i \in
                                {j \in 1..Len(attempts) : attempts[j].resp = "200"}}
    /\ UNCHANGED <<demoMode, devices, CalibrationStore, demoSim, throwCoordinates,
                   call, ret, sbTasks, sbWritten, verified, openConns, windVars,
                   lockVars, serverAddress, serverUp, posts, parseVars, wireVars>>

\* ------------------------------------------------------------------------
\* Specifications
\* ------------------------------------------------------------------------

\* one operator at one screen: an operation of the API starts when none is in
\* flight and the result of the last one has been taken, and the session ends
\* with the MaxThrows-th throw recorded
Ready == call = Idle /\ ret = NoRet /\ Len(throwCoordinates) < MaxThrows

\* the caller takes the result of the operation it awaited
HandleResult ==
    /\ ret # NoRet
    /\ ret' = NoRet
    /\ UNCHANGED <<demoMode, devices, CalibrationStore, demoSim, throwCoordinates,
                   call, sbTasks, sbWritten, verified,
                   openConns, windVars, lockVars, cacheVars, parseVars, wireVars>>

\* the calibration and measurement session; the scoreboard goroutines run at
\* any time
Next ==
    \/ \E e \in BOOLEAN : Ready /\ SetDemoMode(e)
    \/ \E r \in EdmRoles, o \in BOOLEAN : Ready /\ ConnectSerialDevice(r, o)
    \/ \E r \in EdmRoles, o \in BOOLEAN : Ready /\ ConnectNetworkDevice(r, o)
    \/ \E r \in EdmRoles : Ready /\ DisconnectDevice(r)
    \/ \E r \in EdmRoles, t \in CircleTypes \cup {""} :
          Ready /\ handleCircleTypeChange(r, t)
    \/ \E r \in EdmRoles : Ready /\ ResetCalibration(r)
    \/ \E r \in EdmRoles : Ready /\ SetCircleCentreBegin(r)
    \/ \E u \in StationAngleDraws : SetCircleCentreDemo(u)
    \/ SetCircleCentreCommit
    \/ \E r \in EdmRoles : Ready /\ VerifyCircleEdgeBegin(r)
    \/ \E u \in StationAngleDraws : VerifyCircleEdgeDemo(u)
    \/ VerifyCircleEdgeCommit
    \/ \E r \in EdmRoles : Ready /\ MeasureThrowBegin(r)
    \/ \E u \in StationAngleDraws : MeasureThrowDemo(u)
    \/ MeasureThrowCommit
    \/ GetReliableEDMReading
    \/ \E w \in BOOLEAN : TriggerWrite(w)
    \/ \E a \in BOOLEAN, l \in CalibrationLines : TriggerRead(a, l)
    \/ SettleDelay
    \/ HandleResult
    \/ \E i \in 1..Len(sbTasks), w \in BOOLEAN : SendToScoreboard(i, w)

Spec == Init /\ [][Next]_vars

\* the acquirer called on its own, against every line of DeviceLines, beside
\* a scoreboard
NextAcquire ==
    \/ \E e \in BOOLEAN : Ready /\ SetDemoMode(e)
    \/ \E r \in DevRoles, o \in BOOLEAN : Ready /\ ConnectSerialDevice(r, o)
    \/ \E r \in DevRoles, o \in BOOLEAN : Ready /\ ConnectNetworkDevice(r, o)
    \/ \E r \in DevRoles : Ready /\ DisconnectDevice(r)
    \/ \E r \in EdmRoles : Ready /\ GetReliableEDMReadingCall(r)
    \/ GetReliableEDMReading
    \/ \E w \in BOOLEAN : TriggerWrite(w)
    \/ \E a \in BOOLEAN, l \in DeviceLines : TriggerRead(a, l)
    \/ SettleDelay
    \/ GetReliableEDMReadingReturn
    \/ HandleResult
    \/ \E i \in 1..Len(sbTasks), w \in BOOLEAN : SendToScoreboard(i, w)

SpecAcquire == Init /\ [][NextAcquire]_vars

\* VerifyCircleEdge on its own: the edge of every circle type, measured from a
\* station 10 m from the centre along the line of sight, at these distances
\* from the target radius (in half millimetres: 10 is 5.0 mm, 20 is 10.0 mm)
EdgeOffsets == {-21, -20, -11, -10, -9, 0, 9, 10, 11, 20, 21}

\* the record of circle type t with its centre set from LineCentre
EdgeCal(t) ==
    CentredCal(NewCalData(DefaultCal("edm"), t), parseEDMResponseString(LineCentre).reading)

\* the averaged reading of an edge point d beyond the target radius of t
EdgeReading(t, d) ==
    [SlopeDistanceMm |-> 20000 + UkaDefault(t) + d,
     VAzDecimal |-> 90 * 7200,
     HARDecimal |-> 0]

\* a VerifyCircleEdge that has its reading from a connected EDM and is about
\* to compute the verification
InitEdge ==
    \E t \in CircleTypes, d \in EdgeOffsets :
        /\ demoMode = FALSE
        /\ devices = Put(EmptyMap, "edm", [Open |-> TRUE])
        /\ CalibrationStore = Put(EmptyMap, "edm", EdgeCal(t))
        /\ demoSim = EmptyMap
        /\ throwCoordinates = <<>>
        /\ verified = [r \in EdmRoles |-> FALSE]
        /\ call = [Begin("VerifyCircleEdge", "edm") EXCEPT
                      !.pc = "commit",
                      !.connOpen = TRUE,
                      !.io = <<"write", "read", "sleep", "write", "read">>,
                      !.r1 = EdgeReading(t, d),
                      !.r2 = EdgeReading(t, d),
                      !.reading = EdgeReading(t, d)]
        /\ ret = NoRet
        /\ sbTasks = <<>>
        /\ sbWritten = {}
        /\ openConns = [r \in AllRoles |-> IF r = "edm" THEN 1 ELSE 0]
        /\ listeners = <<>>
        /\ windBuffer = <<>>
        /\ lastScan = NoScan
        /\ now = 0
        /\ stateMux = ""
        /\ sbWriting = Nil
        /\ resultCache = <<>>
        /\ cacheFile = NoFile
        /\ serverAddress = <<>>
        /\ serverUp = FALSE
        /\ posts = <<>>
        /\ acked = {}
        /\ lastPass = NoPass
        /\ rawLine = <<>>
        /\ parsedLine = NotParsed
        /\ wire = NoWire

NextEdge ==
    \/ VerifyCircleEdgeCommit
    \/ HandleResult

SpecEdge == InitEdge /\ [][NextEdge]_vars

\* the line a gauge sends while the registry is exercised: one that does not
\* parse, arriving at once
RegistryFeed == {<<WindUnsigned, 0>>}

\* the registry: every role connected, replaced and disconnected, with the
\* listeners of the wind gauge and the goroutines of the scoreboard
NextRegistry ==
    \/ \E r \in AllRoles, o \in BOOLEAN : Ready /\ ConnectSerialDevice(r, o)
    \/ \E r \in AllRoles, o \in BOOLEAN : Ready /\ ConnectNetworkDevice(r, o)
    \/ \E r \in AllRoles : Ready /\ DisconnectDevice(r)
    \/ \E i \in 1..Len(listeners) : ListenerStart(i)
    \/ \E i \in 1..Len(listeners), f \in RegistryFeed : ListenerLine(i, f[1], f[2])
    \/ \E i \in 1..Len(listeners), eof \in BOOLEAN : ListenerScanEnds(i, eof)
    \/ HandleResult
    \/ \E i \in 1..Len(sbTasks), w \in BOOLEAN : SendToScoreboard(i, w)

SpecRegistry == Init /\ [][NextRegistry]_vars

\* the registry under the Go scheduler: a listener goroutine that can take its
\* first critical section takes it, and a scanner.Scan() on a closed
\* connection returns.  Nothing makes a gauge send a line or end its stream,
\* or a user call the API.
SpecListen ==
    /\ Init
    /\ [][NextRegistry]_vars
    /\ \A i \in 1..MaxListeners :
          WF_vars(ListenerStart(i)) /\ WF_vars(ListenerScanEnds(i, FALSE))

\* a gauge that sends one sample a second ("Approx 2 minutes of data at 1
\* reading/sec"), and now and then, in the same second, a line without a sign
BufferFeed == {<<WindPlus, 1>>, <<WindUnsigned, 0>>}

\* the wind gauge connected, its listener scanning
InitWindBuffer ==
    /\ demoMode = FALSE
    /\ devices = Put(EmptyMap, "wind", [Open |-> TRUE])
    /\ CalibrationStore = EmptyMap
    /\ demoSim = EmptyMap
    /\ throwCoordinates = <<>>
    /\ call = Idle
    /\ ret = NoRet
    /\ sbTasks = <<>>
    /\ sbWritten = {}
    /\ verified = [r \in EdmRoles |-> FALSE]
    /\ openConns = [r \in AllRoles |-> IF r = "wind" THEN 1 ELSE 0]
    /\ listeners = <<[NewListener("wind") EXCEPT !.pc = "scan", !.connOpen = TRUE]>>
    /\ windBuffer = <<>>
    /\ lastScan = NoScan
    /\ now = 0
    /\ stateMux = ""
    /\ sbWriting = Nil
    /\ resultCache = <<>>
    /\ cacheFile = NoFile
    /\ serverAddress = <<>>
    /\ serverUp = FALSE
    /\ posts = <<>>
    /\ acked = {}
    /\ lastPass = NoPass
    /\ rawLine = <<>>
    /\ parsedLine = NotParsed
    /\ wire = NoWire

\* the listener alone, fed for MaxFeed seconds
NextWindBuffer ==
    \/ \E i \in 1..Len(listeners), f \in BufferFeed :
          now + f[2] <= MaxFeed /\ ListenerLine(i, f[1], f[2])
    \/ \E i \in 1..Len(listeners), eof \in BOOLEAN : ListenerScanEnds(i, eof)

SpecWindBuffer == InitWindBuffer /\ [][NextWindBuffer]_vars

\* a gauge that sends a line every two seconds: one of three speeds, or a
\* line without a sign
WindFeed == {<<WindMinus, 2>>, <<WindZero, 2>>, <<WindPlus, 2>>, <<WindUnsigned, 2>>}

\* the seconds between the step before and a call of MeasureWind
MeasureDelays == {1, 2}

\* wind measurement, from the gauge connected and its listener scanning:
\* MeasureWind in either mode, until and after the gauge is disconnected
NextWind ==
    \/ \E e \in BOOLEAN : Ready /\ SetDemoMode(e)
    \/ \E r \in WindRoles : Ready /\ DisconnectDevice(r)
    \/ \E i \in 1..Len(listeners), f \in WindFeed :
          now + f[2] <= MaxClock /\ ListenerLine(i, f[1], f[2])
    \/ \E i \in 1..Len(listeners), eof \in BOOLEAN : ListenerScanEnds(i, eof)
    \/ \E r \in WindRoles, d \in MeasureDelays :
          /\ Ready
          /\ now + d <= MaxClock
          /\ Len(sbTasks) < MaxPending
          /\ MeasureWind(r, d)
    \/ HandleResult
    \/ \E i \in 1..Len(sbTasks), w \in BOOLEAN : SendToScoreboard(i, w)

SpecWind == InitWindBuffer /\ [][NextWind]_vars

\* the lock: the bound methods run on goroutines of their own, so SetDemoMode
\* can run while a calibration call is between its critical sections.  A step
\* that begins with a.stateMux.Lock() waits until the lock is free; the
\* generators of demo readings take no lock.
NextLock ==
    \/ \E e \in BOOLEAN : stateMux = "" /\ ret = NoRet /\ SetDemoMode(e)
    \/ \E o \in BOOLEAN :
          Ready /\ stateMux = "" /\ ConnectNetworkDevice("scoreboard", o)
    \/ Ready /\ stateMux = "" /\ DisconnectDevice("scoreboard")
    \/ \E r \in EdmRoles : Ready /\ stateMux = "" /\ demoMode /\ SetCircleCentreBegin(r)
    \/ \E u \in StationAngleDraws : SetCircleCentreDemo(u)
    \/ stateMux = "" /\ SetCircleCentreCommit
    \/ \E r \in EdmRoles : Ready /\ stateMux = "" /\ ResetCalibration(r)
    \/ HandleResult
    \/ \E i \in 1..Len(sbTasks) : SendToScoreboardBegin(i)
    \/ \E w \in BOOLEAN : SendToScoreboardWriteReturns(w)

SpecLock == Init /\ [][NextLock]_vars

\* the shot circle of role edm calibrated: its centre set from LineCentre and
\* its edge verified on the target radius
VerifiedCal ==
    [EdgeCal("SHOT") EXCEPT
        !.EdgeVerificationResult =
            Ref(EdgeResult(EdgeCal("SHOT"), EdgeReading("SHOT", 0)))]

\* a competition on a calibrated circle, outside demo mode, the EDM connected
InitThrows ==
    /\ demoMode = FALSE
    /\ devices = Put(EmptyMap, "edm", [Open |-> TRUE])
    /\ CalibrationStore = Put(EmptyMap, "edm", VerifiedCal)
    /\ demoSim = EmptyMap
    /\ throwCoordinates = <<>>
    /\ verified = [r \in EdmRoles |-> TRUE]
    /\ call = Idle
    /\ ret = NoRet
    /\ sbTasks = <<>>
    /\ sbWritten = {}
    /\ openConns = [r \in AllRoles |-> IF r = "edm" THEN 1 ELSE 0]
    /\ listeners = <<>>
    /\ windBuffer = <<>>
    /\ lastScan = NoScan
    /\ now = 0
    /\ stateMux = ""
    /\ sbWriting = Nil
    /\ resultCache = <<>>
    /\ cacheFile = NoFile
    /\ serverAddress = <<>>
    /\ serverUp = FALSE
    /\ posts = <<>>
    /\ acked = {}
    /\ lastPass = NoPass
    /\ rawLine = <<>>
    /\ parsedLine = NotParsed
    /\ wire = NoWire

\* the lines the EDM answers while throws are measured: two landing points
\* 4 mm apart and a line that does not parse
ThrowLines == {LineEdge, LineEdgeB, LineShort}

\* an operation of the API starts when none is in flight and the result of
\* the last one has been taken
ReadyForThrow == call = Idle /\ ret = NoRet

\* the competition: throws are measured, in or outside demo mode, the log is
\* cleared, the calibration is reset
NextThrows ==
    \/ \E e \in BOOLEAN : ReadyForThrow /\ demoMode # e /\ SetDemoMode(e)
    \/ \E r \in EdmRoles :
          /\ ReadyForThrow
          /\ Len(throwCoordinates) < MaxLoggedThrows
          /\ Len(sbTasks) < MaxPending
          /\ MeasureThrowBegin(r)
    \/ \E u \in StationAngleDraws : MeasureThrowDemo(u)
    \/ MeasureThrowCommit
    \/ GetReliableEDMReading
    \/ \E w \in BOOLEAN : TriggerWrite(w)
    \/ \E a \in BOOLEAN, l \in ThrowLines : TriggerRead(a, l)
    \/ SettleDelay
    \/ \E r \in EdmRoles : ReadyForThrow /\ ResetCalibration(r)
    \/ ReadyForThrow /\ ClearThrowCoordinates
    \/ HandleResult
    \/ \E i \in 1..Len(sbTasks), w \in BOOLEAN : SendToScoreboard(i, w)

SpecThrows == InitThrows /\ [][NextThrows]_vars

\* a session in demo mode and out of it, no device connected: the centre, the
\* edge, throws, and callers of the acquirer itself
NextDemo ==
    \/ \E e \in BOOLEAN : Ready /\ demoMode # e /\ SetDemoMode(e)
    \/ \E r \in EdmRoles, t \in CircleTypes : Ready /\ handleCircleTypeChange(r, t)
    \/ \E r \in EdmRoles : Ready /\ ResetCalibration(r)
    \/ \E r \in EdmRoles : Ready /\ SetCircleCentreBegin(r)
    \/ \E u \in StationAngleDraws : SetCircleCentreDemo(u)
    \/ SetCircleCentreCommit
    \/ \E r \in EdmRoles : Ready /\ VerifyCircleEdgeBegin(r)
    \/ \E u \in StationAngleDraws : VerifyCircleEdgeDemo(u)
    \/ VerifyCircleEdgeCommit
    \/ \E r \in EdmRoles : Ready /\ Len(sbTasks) < MaxPending /\ MeasureThrowBegin(r)
    \/ \E u \in StationAngleDraws : MeasureThrowDemo(u)
    \/ MeasureThrowCommit
    \/ \E r \in EdmRoles : Ready /\ GetReliableEDMReadingCall(r)
    \/ GetReliableEDMReading
    \/ GetReliableEDMReadingReturn
    \/ HandleResult
    \/ \E i \in 1..Len(sbTasks), w \in BOOLEAN : SendToScoreboard(i, w)

SpecDemo == Init /\ [][NextDemo]_vars

\* the lines of a discus session: the centre, the edge of the discus circle
\* (1.250 m), and two landing points
DiscusLines == {LineCentre, LineEdge, LineThrowFar, LineThrowBehind}

\* a discus session at a connected EDM, in demo mode or out of it: the circle
\* is selected, the centre set, the edge verified, a throw measured
NextDiscus ==
    \/ \E e \in BOOLEAN : Ready /\ demoMode # e /\ SetDemoMode(e)
    \/ \E r \in EdmRoles : Ready /\ ~Has(devices, r) /\ ConnectSerialDevice(r, TRUE)
    \/ \E r \in EdmRoles : Ready /\ handleCircleTypeChange(r, "DISCUS")
    \/ \E r \in EdmRoles : Ready /\ SetCircleCentreBegin(r)
    \/ \E u \in StationAngleDraws : SetCircleCentreDemo(u)
    \/ SetCircleCentreCommit
    \/ \E r \in EdmRoles : Ready /\ VerifyCircleEdgeBegin(r)
    \/ \E u \in StationAngleDraws : VerifyCircleEdgeDemo(u)
    \/ VerifyCircleEdgeCommit
    \/ \E r \in EdmRoles : Ready /\ MeasureThrowBegin(r)
    \/ \E u \in StationAngleDraws : MeasureThrowDemo(u)
    \/ MeasureThrowCommit
    \/ GetReliableEDMReading
    \/ TriggerWrite(TRUE)
    \/ \E l \in DiscusLines : TriggerRead(TRUE, l)
    \/ SettleDelay
    \/ HandleResult
    \/ \E i \in 1..Len(sbTasks), w \in BOOLEAN : SendToScoreboard(i, w)

SpecDiscus == Init /\ [][NextDiscus]_vars

\* the first field of the lines given to the parser: "0010000", "12.5",
\* "-5", "abc"
DistanceFields ==
    {<<"0", "0", "1", "0", "0", "0", "0">>,
     <<"1", "2", ".", "5">>,
     <<"-", "5">>,
     <<"a", "b", "c">>}

\* the angle fields: "0922606", "922606", "929960", "0926006", "+922606",
\* "92260", "09226a6", "00922606"
AngleFields ==
    {<<"0", "9", "2", "2", "6", "0", "6">>,
     <<"9", "2", "2", "6", "0", "6">>,
     <<"9", "2", "9", "9", "6", "0">>,
     <<"0", "9", "2", "6", "0", "0", "6">>,
     <<"+", "9", "2", "2", "6", "0", "6">>,
     <<"9", "2", "2", "6", "0">>,
     <<"0", "9", "2", "2", "6", "a", "6">>,
     <<"0", "0", "9", "2", "2", "6", "0", "6">>}

\* the fields after the angles: none, or the signal quality "85"
TrailingFields == {<<>>, <<<<"8", "5">>>>}

RECURSIVE JoinFields(_)
\* the fields of a line, a space between them
JoinFields(fs) ==
    IF Len(fs) = 0 THEN <<>>
    ELSE IF Len(fs) = 1 THEN fs[1]
    ELSE fs[1] \o <<" ">> \o JoinFields(Tail(fs))

\* the lines given to the parser, each ended by its newline
ParseLines ==
    {JoinFields(<<d, v, h>> \o t) \o <<"\n">> :
        d \in DistanceFields, v \in AngleFields, h \in AngleFields, t \in TrailingFields}

\* parseEDMResponseString called on its own
ParseEDMLine(raw) ==
    /\ rawLine' = raw
    /\ parsedLine' = parseEDMResponseString(raw)
    /\ UNCHANGED <<demoMode, devices, CalibrationStore, demoSim, throwCoordinates,
                   call, ret, sbTasks, sbWritten, verified,
                   openConns, windVars, lockVars, cacheVars, wireVars>>

NextParse == \E raw \in ParseLines : ParseEDMLine(raw)

SpecParse == Init /\ [][NextParse]_vars

\* a second passes
ClockTick ==
    /\ now < MaxClock
    /\ now' = now + 1
    /\ UNCHANGED <<demoMode, devices, CalibrationStore, demoSim, throwCoordinates,
                   call, ret, sbTasks, sbWritten, verified, openConns,
                   listeners, windBuffer, lastScan, lockVars, cacheVars, parseVars, wireVars>>

\* a calibration session while time passes: circle types are selected, the
\* centre is set and the edge verified, in demo mode or without a device
NextStamp ==
    \/ Ready /\ ClockTick
    \/ \E e \in BOOLEAN : Ready /\ demoMode # e /\ SetDemoMode(e)
    \/ \E r \in EdmRoles, t \in {"SHOT", "DISCUS"} : Ready /\ handleCircleTypeChange(r, t)
    \/ \E r \in EdmRoles : Ready /\ SetCircleCentreBegin(r)
    \/ \E u \in StationAngleDraws : SetCircleCentreDemo(u)
    \/ SetCircleCentreCommit
    \/ \E r \in EdmRoles : Ready /\ VerifyCircleEdgeBegin(r)
    \/ \E u \in StationAngleDraws : VerifyCircleEdgeDemo(u)
    \/ VerifyCircleEdgeCommit
    \/ GetReliableEDMReading
    \/ HandleResult

SpecStamp == Init /\ [][NextStamp]_vars

\* the lines of a gauge that is listened to step by step
CancelFeed == {WindPlus, WindUnsigned}

\* a wind gauge connected and disconnected while its listener runs step by
\* step and time passes; the gauge is connected when none is
NextCancel ==
    \/ \E r \in WindRoles, o \in BOOLEAN :
          Ready /\ ~Has(devices, r) /\ ConnectSerialDevice(r, o)
    \/ \E r \in WindRoles : Ready /\ DisconnectDevice(r)
    \/ \E i \in 1..Len(listeners) : ListenerStart(i)
    \/ \E i \in 1..Len(listeners), l \in CancelFeed :
          Len(windBuffer) < MaxSamples /\ ListenerScanned(i, l)
    \/ \E i \in 1..Len(listeners) : ListenerAppends(i)
    \/ \E i \in 1..Len(listeners), eof \in BOOLEAN : ListenerScanEnds(i, eof)
    \/ ClockTick
    \/ HandleResult

SpecCancel == Init /\ [][NextCancel]_vars

\* calls of the API that do not wait for one another: a circle type is
\* selected or the calibration reset while SetCircleCentre or VerifyCircleEdge
\* is between its two critical sections
NextStale ==
    \/ \E e \in BOOLEAN : Ready /\ demoMode # e /\ SetDemoMode(e)
    \/ \E r \in EdmRoles, t \in {"SHOT", "DISCUS"} :
          ret = NoRet /\ handleCircleTypeChange(r, t)
    \/ \E r \in EdmRoles : ret = NoRet /\ ResetCalibration(r)
    \/ \E r \in EdmRoles : Ready /\ SetCircleCentreBegin(r)
    \/ \E u \in StationAngleDraws : SetCircleCentreDemo(u)
    \/ SetCircleCentreCommit
    \/ \E r \in EdmRoles : Ready /\ VerifyCircleEdgeBegin(r)
    \/ \E u \in StationAngleDraws : VerifyCircleEdgeDemo(u)
    \/ VerifyCircleEdgeCommit
    \/ GetReliableEDMReading
    \/ HandleResult

SpecStale == Init /\ [][NextStale]_vars

\* two draws of the angle of the synthetic station: 0.0 and 0.5
ResimAngleDraws == {0, 1}

\* demo sessions in which the simulation is made again: demo mode is switched
\* on when it is on already, and the station is drawn anew
NextResim ==
    \/ \E e \in BOOLEAN : Ready /\ SetDemoMode(e)
    \/ \E r \in EdmRoles : Ready /\ handleCircleTypeChange(r, "DISCUS")
    \/ \E r \in EdmRoles : Ready /\ SetCircleCentreBegin(r)
    \/ \E u \in ResimAngleDraws : SetCircleCentreDemo(u)
    \/ SetCircleCentreCommit
    \/ \E r \in EdmRoles : Ready /\ VerifyCircleEdgeBegin(r)
    \/ \E u \in ResimAngleDraws : VerifyCircleEdgeDemo(u)
    \/ VerifyCircleEdgeCommit
    \/ \E r \in EdmRoles : Ready /\ Len(sbTasks) < MaxPending /\ MeasureThrowBegin(r)
    \/ \E u \in ResimAngleDraws : MeasureThrowDemo(u)
    \/ MeasureThrowCommit
    \/ GetReliableEDMReading
    \/ HandleResult
    \/ \E i \in 1..Len(sbTasks), w \in BOOLEAN : SendToScoreboard(i, w)

SpecResim == Init /\ [][NextResim]_vars

\* the acquirer at an EDM on a network connection, the responses followed
\* from the EDM to the read that takes them
NextWire ==
    \/ \E r \in EdmRoles : Ready /\ ~Has(devices, r) /\ ConnectNetworkDevice(r, TRUE)
    \/ \E r \in EdmRoles :
          Ready /\ wire.sent + 2 <= MaxCommands /\ GetReliableEDMReadingCall(r)
    \/ GetReliableEDMReading
    \/ WireWrite
    \/ DeviceAnswers
    \/ \E l \in {LineCentre, LineCentreB, LineShort} : WireRead(l)
    \/ WireReadTimeout
    \/ SettleDelay
    \/ GetReliableEDMReadingReturn
    \/ HandleResult

SpecWire == Init /\ [][NextWire]_vars

\* the scoreboard: the gauge connected and its listener scanning, a scoreboard
\* connected, and wind measured one call after the other while the
\* SendToScoreboard goroutines of earlier calls may still be waiting to run
NextBoard ==
    \/ Ready /\ ~Has(devices, "scoreboard") /\ ConnectNetworkDevice("scoreboard", TRUE)
    \/ \E i \in 1..Len(listeners), f \in WindFeed :
          now + f[2] <= MaxClock /\ ListenerLine(i, f[1], f[2])
    \/ \E r \in WindRoles, d \in MeasureDelays :
          /\ Ready
          /\ now + d <= MaxClock
          /\ Len(sbTasks) < MaxPending
          /\ MeasureWind(r, d)
    \/ HandleResult
    \/ \E i \in 1..Len(sbTasks), w \in BOOLEAN : SendToScoreboard(i, w)

SpecBoard == InitWindBuffer /\ [][NextBoard]_vars

\* the acquirer, in either mode and beside a scoreboard, against an EDM aimed
\* near its zero direction
NextBearing ==
    \/ \E e \in BOOLEAN : Ready /\ SetDemoMode(e)
    \/ \E r \in DevRoles, o \in BOOLEAN : Ready /\ ConnectSerialDevice(r, o)
    \/ \E r \in DevRoles : Ready /\ DisconnectDevice(r)
    \/ \E r \in EdmRoles : Ready /\ GetReliableEDMReadingCall(r)
    \/ GetReliableEDMReading
    \/ \E w \in BOOLEAN : TriggerWrite(w)
    \/ \E a \in BOOLEAN, l \in BearingLines : TriggerRead(a, l)
    \/ SettleDelay
    \/ GetReliableEDMReadingReturn
    \/ HandleResult
    \/ \E i \in 1..Len(sbTasks), w \in BOOLEAN : SendToScoreboard(i, w)

SpecBearing == Init /\ [][NextBearing]_vars

\* the addresses SetServerAddress is given: "h:80" and "h h:80"
ServerAddresses == {<<"h", ":", "8", "0">>, <<"h", " ", "h", ":", "8", "0">>}

\* the process runs until a goroutine panics
Running == lastPass.kind # "panic"

\* result delivery: the UI posts results to a server that answers as it
\* likes, and the retry loop ticks
NextCache ==
    \/ \E a \in ServerAddresses : Running /\ serverAddress # a /\ SetServerAddress(a)
    \/ \E a \in ServerAddresses, r \in Responses :
          Running /\ Len(posts) < MaxPosts /\ PostResult(a, r)
    \/ \E id \in 1..Len(posts) : Running /\ addResultToCache(id)
    \/ \E answers \in [1..Len(resultCache) -> Responses] :
          Running /\ retryCachedResults(answers)

SpecCache == Init /\ [][NextCache]_vars

\* the application starts one background task for cache retry
RetryLoopStarted == TRUE

\* the ticker of the retry loop fires and the loop takes its turn
RetryTick ==
    /\ RetryLoopStarted
    /\ Running
    /\ \E answers \in [1..Len(resultCache) -> Responses] : retryCachedResults(answers)

\* result delivery with a server that comes and goes
NextRetry ==
    \/ \E a \in ServerAddresses : Running /\ serverAddress # a /\ SetServerAddress(a)
    \/ \E u \in BOOLEAN : Running /\ serverUp # u /\ SetServerUp(u)
    \/ \E a \in ServerAddresses, r \in Responses :
          Running /\ Len(posts) < MaxLivePosts /\ PostResult(a, r)
    \/ \E id \in 1..Len(posts) : Running /\ addResultToCache(id)
    \/ RetryTick

\* the ticker fires every cacheRetryInterval for as long as the process runs
SpecRetry == Init /\ [][NextRetry]_vars /\ WF_vars(RetryTick)

\* ------------------------------------------------------------------------
\* Properties.  ret is the result of the operation that has just returned;
\* ret.before is the store, the simulations and the throw log as that
\* operation found them.
\* ------------------------------------------------------------------------

\* the errors GetReliableEDMReading returns
AcquisitionErrors ==
    {"not connected", "first read failed", "second read failed", "readings inconsistent"}

\* the exchanges with the device that failed
FailedExchanges == {"write failed", "read failed", "parse failed"}

\* the operations that work with a reading
ReadingOps == {"SetCircleCentre", "VerifyCircleEdge", "MeasureThrow"}

\* the role has no record, or its centre is not set
CentreMissing(store, r) == ~Has(store, r) \/ ~store[r].IsCentreSet

\* the record of the role has no edge verification in tolerance
EdgeMissing(store, r) ==
    \/ store[r].EdgeVerificationResult = Nil
    \/ ~store[r].EdgeVerificationResult[1].IsInTolerance

\* C1: MeasureThrow on a role that has no record or whose centre is not set,
\* in either mode, and outside demo mode also on a record without an edge
\* verification in tolerance, returns the error of that precondition; it has
\* then exchanged nothing with the device, generated no demo reading, appended
\* no throw and handed nothing to the scoreboard.
C1_MeasureThrowPrecondition ==
    ret.op = "MeasureThrow" =>
        LET store == ret.before.store
            r == ret.devType
            noCentre == CentreMissing(store, r)
            noEdge == ~noCentre /\ ~ret.isDemoMode /\ EdgeMissing(store, r)
        IN  (noCentre \/ noEdge) =>
               /\ noCentre => ret.err = "EDM is not calibrated - centre not set"
               /\ noEdge => ret.err =
                     "EDM must be calibrated with valid edge verification before measurement"
               /\ ret.io = <<>>
               /\ ret.forwarded = <<>>
               /\ throwCoordinates = ret.before.log
               /\ demoSim = ret.before.sim

\* C1's case: outside demo mode, with an EDM connected and the centre set, a
\* MeasureThrow refused for an edge verification that is out of tolerance
C1_Witness ==
    /\ ret.op = "MeasureThrow"
    /\ ~ret.isDemoMode
    /\ Has(devices, ret.devType)
    /\ ~CentreMissing(CalibrationStore, ret.devType)
    /\ CalibrationStore[ret.devType].EdgeVerificationResult # Nil
    /\ ~CalibrationStore[ret.devType].EdgeVerificationResult[1].IsInTolerance
    /\ ret.err = "EDM must be calibrated with valid edge verification before measurement"

\* C2: outside demo mode a MeasureThrow that succeeds was called after a
\* VerifyCircleEdge of the role had completed in tolerance, later than the
\* last SetCircleCentre, circle-type change and reset of the role; and the
\* store holds an edge verification in tolerance only after such a
\* VerifyCircleEdge.
C2_ThrowAfterVerifiedEdge ==
    /\ (ret.op = "MeasureThrow" /\ ret.err = "" /\ ~ret.isDemoMode) => ret.verifiedAtCall
    /\ \A r \in EdmRoles :
          (Has(CalibrationStore, r) /\ ~EdgeMissing(CalibrationStore, r)) => verified[r]

\* C2's case: a throw measured and recorded outside demo mode
C2_Witness ==
    /\ ret.op = "MeasureThrow" /\ ret.err = "" /\ ~ret.isDemoMode
    /\ Len(throwCoordinates) = Len(ret.before.log) + 1

\* C3: VerifyCircleEdge on a role that has no record or whose centre is not
\* set returns "must set circle centre first", has exchanged nothing with the
\* device and leaves the calibration store as it was.
C3_VerifyEdgePrecondition ==
    (ret.op = "VerifyCircleEdge" /\ CentreMissing(ret.before.store, ret.devType)) =>
        /\ ret.err = "must set circle centre first"
        /\ ret.io = <<>>
        /\ CalibrationStore = ret.before.store
        /\ demoSim = ret.before.sim

\* C3's case: an EDM is connected and the role has a record, its centre not set
C3_Witness ==
    /\ ret.op = "VerifyCircleEdge"
    /\ ret.err = "must set circle centre first"
    /\ Has(devices, ret.devType)
    /\ Has(CalibrationStore, ret.devType)
    /\ ~CalibrationStore[ret.devType].IsCentreSet

\* C4 as stated: SetCircleCentre on a role without a record fails with a
\* precondition error (an error that is not one of the acquirer's), acquires
\* no reading and leaves the store as it was.
C4_SetCentreRequiresSelection ==
    (ret.op = "SetCircleCentre" /\ ~Has(ret.before.store, ret.devType)) =>
        /\ ret.err \notin {""} \cup AcquisitionErrors
        /\ ret.io = <<>>
        /\ CalibrationStore = ret.before.store

\* C4, amended: SetCircleCentre has no precondition.  On a role without a
\* record it works with the default record (SHOT, 1.0675 m): it goes on to
\* acquire a reading, and returns either an error of the acquirer, the store
\* still without a record of the role, or no error, the store then holding
\* the SHOT record with its centre set.
C4_SetCentreUsesDefaultCircle ==
    (ret.op = "SetCircleCentre" /\ ~Has(ret.before.store, ret.devType)) =>
        /\ ret.err \in {""} \cup AcquisitionErrors
        /\ ret.err # "" => CalibrationStore = ret.before.store
        /\ ret.err = "" =>
              /\ ret.io # <<>>
              /\ Has(CalibrationStore, ret.devType)
              /\ CalibrationStore[ret.devType].SelectedCircleType = "SHOT"
              /\ CalibrationStore[ret.devType].TargetRadius = 2135
              /\ CalibrationStore[ret.devType].IsCentreSet

\* C4's case: outside demo mode, a centre set from an EDM on a role that had
\* no record
C4_Witness ==
    /\ ret.op = "SetCircleCentre" /\ ret.err = "" /\ ~ret.isDemoMode
    /\ ~Has(ret.before.store, ret.devType)
    /\ Has(CalibrationStore, ret.devType)

\* C5: when an exchange with the device failed inside SetCircleCentre,
\* VerifyCircleEdge or MeasureThrow, the operation returns an error of the
\* acquirer; and whenever one of them returns an error of the acquirer (no
\* device, a write, read or parse error, an inconsistent pair), the
\* calibration store, the demo simulations and the throw log are as they were
\* before the call.
C5_AcquisitionFailureKeepsState ==
    ret.op \in ReadingOps =>
        /\ (ret.io # <<>> /\ ret.io[Len(ret.io)] \in FailedExchanges)
              => ret.err \in AcquisitionErrors
        /\ (Len(ret.io) = 5 /\ ret.io[5] = "read"
            /\ Abs(ret.r1.SlopeDistanceMm - ret.r2.SlopeDistanceMm) > 2 * 3)
              => ret.err \in AcquisitionErrors
        /\ ret.err \in AcquisitionErrors =>
              /\ CalibrationStore = ret.before.store
              /\ demoSim = ret.before.sim
              /\ throwCoordinates = ret.before.log

\* C5's case: a MeasureThrow whose second line did not parse
C5_Witness ==
    /\ ret.op = "MeasureThrow"
    /\ ret.err = "second read failed"
    /\ ret.cause = "malformed response"
    /\ ret.io = <<"write", "read", "sleep", "write", "parse failed">>

\* C6: outside demo mode GetReliableEDMReading returns a reading exactly when
\* both lines were read and parsed and their slope distances differ by at
\* most 3 mm; the reading is the mean of the two in each field.  When they
\* differ by more it returns the inconsistency error with both slope
\* distances and no reading.  (Lengths are in half millimetres.)
C6_ReliableReading ==
    (ret.op = "GetReliableEDMReading" /\ ~ret.isDemoMode) =>
        LET bothRead == Len(ret.io) = 5 /\ ret.io[5] = "read"
            diff == Abs(ret.r1.SlopeDistanceMm - ret.r2.SlopeDistanceMm)
        IN  /\ ret.err = "" <=> (bothRead /\ diff <= 2 * 3)
            /\ ret.err = "" =>
                  /\ ret.detail = <<ret.reading>>
                  /\ 2 * ret.reading.SlopeDistanceMm =
                        ret.r1.SlopeDistanceMm + ret.r2.SlopeDistanceMm
                  /\ 2 * ret.reading.VAzDecimal = ret.r1.VAzDecimal + ret.r2.VAzDecimal
                  /\ 2 * ret.reading.HARDecimal = ret.r1.HARDecimal + ret.r2.HARDecimal
            /\ (bothRead /\ diff > 2 * 3) =>
                  /\ ret.err = "readings inconsistent"
                  /\ ret.detail = <<ret.r1.SlopeDistanceMm \div 2,
                                    ret.r2.SlopeDistanceMm \div 2>>
                  /\ ret.reading = NoParsed

\* C6's case: two lines exactly 3 mm apart, with different angles, averaged
C6_Witness ==
    /\ ret.op = "GetReliableEDMReading" /\ ~ret.isDemoMode /\ ret.err = ""
    /\ Abs(ret.r1.SlopeDistanceMm - ret.r2.SlopeDistanceMm) = 2 * 3
    /\ ret.r1.VAzDecimal # ret.r2.VAzDecimal
    /\ ret.r1.HARDecimal # ret.r2.HARDecimal

\* the exchanges of one acquisition in their order: write, read, sleep,
\* write, read, nothing after an exchange that failed
ExchangesInOrder(io) ==
    /\ Len(io) <= 5
    /\ \A i \in 1..Len(io) :
          /\ i \in {1, 4} => io[i] \in {"write", "write failed"}
          /\ i \in {2, 5} => io[i] \in {"read", "read failed", "parse failed"}
          /\ i = 3 => io[i] = "sleep"
          /\ i < Len(io) => io[i] \notin FailedExchanges

\* C7: outside demo mode the exchanges of one acquisition, while it runs and
\* when it returns, are in the order write 1, read 1, settle delay, write 2,
\* read 2; after a first read that failed in its write, its read or its
\* parse nothing more is written.
C7_ExchangesSequential ==
    /\ ~call.isDemoMode => ExchangesInOrder(call.io)
    /\ ~ret.isDemoMode => ExchangesInOrder(ret.io)
    /\ ret.err = "first read failed" => Len(ret.io) \in {1, 2}
    /\ call.pc \in {"write2", "read2"} =>
          /\ Len(call.io) >= 3
          /\ SubSeq(call.io, 1, 3) = <<"write", "read", "sleep">>

\* C7's case: the first line did not parse and the acquisition ended there
C7_Witness ==
    /\ ret.op = "GetReliableEDMReading"
    /\ ret.err = "first read failed"
    /\ ret.io = <<"write", "parse failed">>

\* C8: after a SetCircleCentre that succeeded the record of the role has its
\* centre set, no edge verification, and the station at
\* (-h cos(har), -h sin(har)) for h = sd sin(vaz) of the reading acquired;
\* its circle type and target radius are those of the record before the call.
C8_SetCentrePostState ==
    (ret.op = "SetCircleCentre" /\ ret.err = "") =>
        LET r == ret.devType
            h == MulTrig(ret.reading.SlopeDistanceMm, Sin(ret.reading.VAzDecimal))
        IN  /\ Has(CalibrationStore, r)
            /\ CalibrationStore[r].IsCentreSet
            /\ CalibrationStore[r].EdgeVerificationResult = Nil
            /\ CalibrationStore[r].StationCoordinates =
                  [X |-> -MulTrig(h, Cos(ret.reading.HARDecimal)),
                   Y |-> -MulTrig(h, Sin(ret.reading.HARDecimal))]
            /\ Has(ret.before.store, r) =>
                  /\ CalibrationStore[r].SelectedCircleType =
                        ret.before.store[r].SelectedCircleType
                  /\ CalibrationStore[r].TargetRadius = ret.before.store[r].TargetRadius

\* C8's case: the centre set again, from an EDM, on a DISCUS record that held
\* an edge verification
C8_Witness ==
    /\ ret.op = "SetCircleCentre" /\ ret.err = "" /\ ~ret.isDemoMode
    /\ Has(ret.before.store, ret.devType)
    /\ ret.before.store[ret.devType].SelectedCircleType = "DISCUS"
    /\ ret.before.store[ret.devType].EdgeVerificationResult # Nil
    /\ CalibrationStore[ret.devType].StationCoordinates # [X |-> 0, Y |-> 0]

\* C9: right after a circle type is selected for a role its record has the
\* centre not set and no edge verification; the selection is one step that
\* exchanges nothing with a device.
C9_SelectCircleClears ==
    ret.op = "SaveCalibration" =>
        /\ Has(CalibrationStore, ret.devType)
        /\ ~CalibrationStore[ret.devType].IsCentreSet
        /\ CalibrationStore[ret.devType].EdgeVerificationResult = Nil
        /\ ret.io = <<>>
        /\ call = Idle

\* C9's case: a type selected, with no device connected, for a record whose
\* station shows that a centre had been set
C9_Witness ==
    /\ ret.op = "SaveCalibration"
    /\ devices = EmptyMap
    /\ CalibrationStore[ret.devType].SelectedCircleType = "JAVELIN_ARC"
    /\ CalibrationStore[ret.devType].StationCoordinates # [X |-> 0, Y |-> 0]

\* C10 as stated: every record of the store has the target radius of its
\* circle type: SHOT 1.0675 m, DISCUS 1.250 m, HAMMER 1.0675 m, JAVELIN_ARC
\* 8.000 m (in half millimetres).
C10_TargetRadiusOfficial ==
    \A r \in DOMAIN CalibrationStore :
        LET rec == CalibrationStore[r]
        IN  \/ rec.SelectedCircleType = "SHOT" /\ rec.TargetRadius = 2135
            \/ rec.SelectedCircleType = "DISCUS" /\ rec.TargetRadius = 2500
            \/ rec.SelectedCircleType = "HAMMER" /\ rec.TargetRadius = 2135
            \/ rec.SelectedCircleType = "JAVELIN_ARC" /\ rec.TargetRadius = 16000

\* C11 as stated: the step in which ResetCalibration returns leaves neither
\* a calibration record nor a demo simulation of its role, whether demo mode
\* is on or off, and leaves the records and simulations of every other role
\* as they were.
C11_ResetClearsRole ==
    [][(ret = NoRet /\ ret'.op = "ResetCalibration") =>
          LET r == ret'.devType
          IN  /\ ~Has(CalibrationStore', r)
              /\ ~Has(demoSim', r)
              /\ \A q \in (DOMAIN CalibrationStore \cup DOMAIN CalibrationStore') \ {r} :
                    /\ Has(CalibrationStore, q) /\ Has(CalibrationStore', q)
                    /\ CalibrationStore'[q] = CalibrationStore[q]
              /\ \A q \in (DOMAIN demoSim \cup DOMAIN demoSim') \ {r} :
                    /\ Has(demoSim, q) /\ Has(demoSim', q)
                    /\ demoSim'[q] = demoSim[q]]_vars

\* C12: the edge verification a VerifyCircleEdge stores has differenceMm =
\* measuredRadius - targetRadius for the target radius of the record, the
\* tolerance 10.0 mm for the javelin arc and 5.0 mm for every other circle
\* type, and is in tolerance exactly when |differenceMm| <= tolerance: a
\* difference equal to the tolerance passes, the next one above it fails.
\* Along the line of sight the measured radius is the distance of the point
\* from the station less the distance of the centre.  (Half millimetres.)
C12_EdgeTolerance ==
    (ret.op = "VerifyCircleEdge" /\ ret.err = "") =>
        LET r == ret.devType
            was == ret.before.store[r]
            res == CalibrationStore[r].EdgeVerificationResult
            tol == IF was.SelectedCircleType = "JAVELIN_ARC" THEN 20 ELSE 10
            diff == res[1].DifferenceMm
        IN  /\ res # Nil
            /\ diff = res[1].MeasuredRadius - was.TargetRadius
            /\ res[1].ToleranceAppliedMm = tol
            /\ res[1].IsInTolerance <=> (-tol <= diff /\ diff <= tol)
            /\ (diff = tol \/ diff = -tol) => res[1].IsInTolerance
            /\ (diff = tol + 1 \/ diff = -(tol + 1)) => ~res[1].IsInTolerance
            /\ (was.StationCoordinates.Y = 0 /\ ret.reading.HARDecimal = 0
                /\ ret.reading.VAzDecimal = 90 * 7200
                /\ ret.reading.SlopeDistanceMm + was.StationCoordinates.X >= 0)
                  => res[1].MeasuredRadius =
                        ret.reading.SlopeDistanceMm + was.StationCoordinates.X

\* C12's case: a javelin arc measured exactly 10.0 mm beyond its radius, in
\* tolerance
C12_Witness ==
    /\ ret.op = "VerifyCircleEdge" /\ ret.err = ""
    /\ CalibrationStore[ret.devType].SelectedCircleType = "JAVELIN_ARC"
    /\ CalibrationStore[ret.devType].EdgeVerificationResult # Nil
    /\ CalibrationStore[ret.devType].EdgeVerificationResult[1].DifferenceMm = 20
    /\ CalibrationStore[ret.devType].EdgeVerificationResult[1].IsInTolerance

\* the listeners of a role whose context is not done
LiveListeners(r) ==
    {i \in 1..Len(listeners) : listeners[i].role = r /\ ~listeners[i].cancelled}

\* C13: over any sequence of connects and disconnects a role has at most one
\* open connection, and it is the one of its registry entry: every other
\* connection opened for the role has been closed.  At most one listener of
\* a role has a context that is not done, none when the role has no entry,
\* and a listener that scans an open connection scans the one registered.
C13_OneOpenConnectionPerRole ==
    \A r \in AllRoles :
        /\ openConns[r] <= 1
        /\ openConns[r] = 1 <=> (r \in DOMAIN devices /\ devices[r].Open)
        /\ Cardinality(LiveListeners(r)) <= 1
        /\ LiveListeners(r) # {} => r \in DOMAIN devices
        /\ \A i \in 1..Len(listeners) :
              (listeners[i].role = r /\ listeners[i].connOpen) =>
                  (r \in DOMAIN devices /\ devices[r].Open)

\* C13's case: the wind gauge connected twice: the first listener cancelled,
\* the second not, one connection open
C13_Witness ==
    /\ Len(listeners) = 2
    /\ listeners[1].cancelled /\ ~listeners[2].cancelled
    /\ openConns["wind"] = 1
    /\ "edm" \in DOMAIN devices

\* C14: the step in which DisconnectDevice returns, for a role that has a
\* registry entry, returns no error, removes that entry and no other, leaves
\* the role without an open connection and its listeners with a context that
\* is done and a closed connection; for a role without an entry it returns an
\* error and changes nothing.
C14_Disconnect ==
    [][(ret = NoRet /\ ret'.op = "DisconnectDevice") =>
          LET r == ret'.devType
          IN  IF r \in DOMAIN devices
              THEN /\ ret'.err = ""
                   /\ DOMAIN devices' = DOMAIN devices \ {r}
                   /\ \A q \in DOMAIN devices' : devices'[q] = devices[q]
                   /\ openConns'[r] = 0
                   /\ \A q \in AllRoles \ {r} : openConns'[q] = openConns[q]
                   /\ Len(listeners') = Len(listeners)
                   /\ \A i \in 1..Len(listeners) :
                         IF listeners[i].role = r
                         THEN listeners'[i].cancelled /\ ~listeners'[i].connOpen
                         ELSE listeners'[i] = listeners[i]
              ELSE /\ ret'.err # ""
                   /\ UNCHANGED <<demoMode, devices, CalibrationStore, demoSim,
                                  throwCoordinates, call, sbTasks, sbWritten,
                                  verified, openConns, windVars, lockVars, cacheVars, parseVars, wireVars>>]_vars

\* C14's case: the wind gauge disconnected while its listener scanned and an
\* EDM stayed connected
C14_Witness ==
    /\ ret.op = "DisconnectDevice" /\ ret.err = "" /\ ret.devType = "wind"
    /\ "edm" \in DOMAIN devices
    /\ Len(listeners) > 0
    /\ listeners[1].pc = "scan" /\ listeners[1].cancelled

\* C15 as stated: the registry never holds an entry whose connection has been
\* closed.
C15_NoClosedEntry ==
    \A r \in DOMAIN devices : devices[r].Open

\* the speed a line of the gauge carries, in tenths: <<v>>, or <<>> for a
\* line that is no sample
WindValueOf(line) ==
    CASE line = <<"A", ",", "-", "1", ".", "0">> -> <<-10>>
      [] line = <<"A", ",", "+", "0", ".", "0">> -> <<0>>
      [] line = <<"A", ",", "+", "1", ".", "0">> -> <<10>>
      [] OTHER -> <<>>

\* C16: the wind buffer never holds more than 120 samples, and its
\* timestamps never decrease; a step in which a listener takes a line
\* appends, when the line is a sample, that sample with its arrival time at
\* the end, dropping the first sample, and only it, when the buffer held 120,
\* and leaves the buffer as it was when the line is no sample.  No other
\* step changes the buffer.
C16_WindBuffer ==
    /\ [](/\ Len(windBuffer) <= 120
          /\ \A i \in 1..Len(windBuffer) - 1 :
                windBuffer[i].Timestamp <= windBuffer[i + 1].Timestamp)
    /\ [][IF lastScan' # lastScan \/ windBuffer' # windBuffer
          THEN LET v == WindValueOf(lastScan'.line)
                   sample == [Value |-> v[1], Timestamp |-> lastScan'.at]
               IN  /\ lastScan'.at = now'
                   /\ v = <<>> => windBuffer' = windBuffer
                   /\ (v # <<>> /\ Len(windBuffer) < 120) =>
                         windBuffer' = Append(windBuffer, sample)
                   /\ (v # <<>> /\ Len(windBuffer) >= 120) =>
                         windBuffer' = Append(Tail(windBuffer), sample)
          ELSE TRUE]_vars

\* C16's case: a full buffer whose first samples have been dropped, after a
\* line without a sign arrived
C16_Witness ==
    /\ Len(windBuffer) = 120
    /\ windBuffer[1].Timestamp = 3
    /\ windBuffer[120].Timestamp = 122
    /\ lastScan = [line |-> WindUnsigned, at |-> 122]

RECURSIVE RecentSum(_, _)
\* the sum of the speeds of the samples of buf less than 5 seconds older than t
RecentSum(buf, t) ==
    IF Len(buf) = 0 THEN 0
    ELSE (IF t - Head(buf).Timestamp < 5 THEN Head(buf).Value ELSE 0)
         + RecentSum(Tail(buf), t)

\* C17: outside demo mode and with the wind role registered, the step in
\* which MeasureWind returns at time t returns, to the nearest tenth, the
\* arithmetic mean of the buffered samples less than 5 seconds older than t,
\* and hands that value to the scoreboard; when the buffer holds no such
\* sample it returns an error and no value and hands the scoreboard nothing.
\* The buffer is left as it was.
C17_MeasureWindWindow ==
    [][(ret = NoRet /\ ret'.op = "MeasureWind" /\ ~demoMode
        /\ ret'.devType \in DOMAIN devices) =>
          LET t == now'
              recent == {i \in 1..Len(windBuffer) : t - windBuffer[i].Timestamp < 5}
              n == Cardinality(recent)
              sum == RecentSum(windBuffer, t)
          IN  /\ windBuffer' = windBuffer
              /\ IF n = 0
                 THEN /\ ret'.err # ""
                      /\ ret'.detail = <<>>
                      /\ ret'.forwarded = <<>>
                      /\ sbTasks' = sbTasks
                 ELSE /\ ret'.err = ""
                      /\ Len(ret'.detail) = 1
                      /\ 2 * Abs(n * ret'.detail[1].cm - sum) <= n
                      /\ ret'.forwarded = ret'.detail
                      /\ sbTasks' = Append(sbTasks, ret'.detail[1])]_vars

\* C17's case: samples of -1.0, 0.0 and +1.0 m/s taken 6, 4 and 2 seconds
\* before the call give +0.5 m/s
C17_Witness ==
    /\ ret.op = "MeasureWind" /\ ret.err = "" /\ ~ret.isDemoMode
    /\ now = 8
    /\ windBuffer = <<[Value |-> -10, Timestamp |-> 2],
                      [Value |-> 0, Timestamp |-> 4],
                      [Value |-> 10, Timestamp |-> 6]>>
    /\ ret.detail = <<[text |-> "%+.1f m/s", cm |-> 5]>>

\* C18 as stated: a listener whose Device has been disconnected or replaced
\* (its context is done) eventually terminates, and no step of a listener
\* closes a connection or changes the registry.
C18_ListenerTerminates ==
    /\ \A i \in 1..MaxListeners :
          [](((i <= Len(listeners)) /\ listeners[i].cancelled)
                => <>((i <= Len(listeners)) /\ listeners[i].pc = "done"))
    /\ [][(\E i \in 1..Len(listeners) : listeners'[i].pc # listeners[i].pc)
             => UNCHANGED <<devices, openConns>>]_vars

\* C19 as stated: shared state is read and written only by the task that
\* holds the lock, so a step taken while another task holds the lock, and
\* keeps it, changes none of it.
C19_SharedStateUnderLock ==
    [][(stateMux # "" /\ stateMux' = stateMux) =>
          UNCHANGED <<demoMode, devices, CalibrationStore, demoSim, windBuffer>>]_vars

\* C20 as stated: no task is inside a device write while it holds the lock.
C20_NoBlockingIOUnderLock == stateMux = "" \/ sbWriting = Nil

\* the errors that say the payload was cached
CachedErrors == {"network error, result cached", "server error (500), result cached"}

\* PostResult call id returns in this step
PostReturns(id) ==
    /\ id \in 1..Len(posts')
    /\ posts'[id].pc = "done"
    /\ id > Len(posts) \/ posts[id].pc # "done"

\* C21: the step in which a PostResult returns after a transport failure or
\* a status other than 200 appends its payload at the end of the cache, where
\* it then is once, and returns a "cached" error; the step in which it
\* returns after a 200 returns no error and leaves the cache as it was.  A
\* call that has returned has returned a "cached" error exactly when its
\* request failed or was answered with another status.
C21_PostResultCaches ==
    /\ [](\A id \in 1..Len(posts) :
            posts[id].pc = "done" =>
               /\ posts[id].resp = "200" => posts[id].err = ""
               /\ posts[id].resp \in {"500", "neterr"} <=> posts[id].err \in CachedErrors)
    /\ [][\A id \in 1..MaxPosts + 1 :
            PostReturns(id) =>
               IF posts'[id].resp \in {"500", "neterr"}
               THEN /\ resultCache' = resultCache \o <<id>>
                    /\ \A i \in 1..Len(resultCache) : resultCache[i] # id
                    /\ posts'[id].err \in CachedErrors
               ELSE resultCache' = resultCache]_vars

\* C21's case: a call cached after a transport failure, one cached after a
\* status 500, and one answered 200
C21_Witness ==
    /\ Len(posts) = 3
    /\ posts[1].pc = "done" /\ posts[1].resp = "neterr"
    /\ posts[1].err = "network error, result cached"
    /\ posts[2].pc = "done" /\ posts[2].resp = "500"
    /\ posts[2].err = "server error (500), result cached"
    /\ posts[3].pc = "done" /\ posts[3].resp = "200" /\ posts[3].err = ""
    /\ resultCache = <<1, 2>>

\* the k-th smallest member of a set of numbers
KthOf(S, k) == CHOOSE i \in S : Cardinality({j \in S : j < i}) = k - 1

\* C22: a retry pass sends one request for each payload of the cache, in
\* cache order, and leaves as the cache exactly the payloads whose request
\* failed or got a status other than 200, in the order they had.
C22_RetryPassKeepsFailed ==
    [][(lastPass' # lastPass /\ lastPass'.kind = "pass") =>
          LET att == lastPass'.attempts
              failed == {i \in 1..Len(att) : att[i].resp # "200"}
          IN  /\ Len(att) = Len(resultCache)
              /\ \A i \in 1..Len(att) : att[i].id = resultCache[i]
              /\ Len(resultCache') = Cardinality(failed)
              /\ \A k \in 1..Len(resultCache') :
                    resultCache'[k] = resultCache[KthOf(failed, k)]
              /\ \A i \in 1..Len(att) :
                    att[i].resp = "200" =>
                        \A k \in 1..Len(resultCache') : resultCache'[k] # att[i].id]_vars

\* C22's case: of three cached payloads the second is delivered and the
\* first and third stay, in that order
C22_Witness ==
    /\ lastPass = [kind |-> "pass",
                   attempts |-> <<[id |-> 1, resp |-> "500"],
                                  [id |-> 2, resp |-> "200"],
                                  [id |-> 3, resp |-> "neterr"]>>]
    /\ resultCache = <<1, 3>>

\* payload id is in the cache
InCache(id) == \E i \in 1..Len(resultCache) : resultCache[i] = id

\* C23 as stated: in every state, every payload passed to PostResult and not
\* acknowledged with a 200 is in the cache.
C23_NoResultLost ==
    \A id \in 1..Len(posts) : id \notin acked => InCache(id)

\* C23 amended: in every state, every payload for which PostResult has
\* returned a "cached" error and which the server has not acknowledged with
\* a 200 since is in the cache, once.
C23_CachedUntilAcknowledged ==
    \A id \in 1..Len(posts) :
        (posts[id].pc = "done" /\ posts[id].err \in CachedErrors /\ id \notin acked)
            => Cardinality({i \in 1..Len(resultCache) : resultCache[i] = id}) = 1

\* C23's case: a retry pass has delivered one cached payload and failed for
\* another, which is still cached, while a third PostResult is on its way to
\* the cache
C23_Witness ==
    /\ lastPass.kind = "pass"
    /\ Len(posts) = 3
    /\ 1 \in acked /\ posts[1].err \in CachedErrors
    /\ 2 \notin acked /\ posts[2].err \in CachedErrors /\ InCache(2)
    /\ posts[3].pc = "cache"

\* C24: if from some time on a server address is configured and the server
\* answers 200 to every request, and the retry loop keeps ticking, then every
\* cached payload is eventually acknowledged and a cache that is not empty
\* eventually is; and a tick that finds the cache empty or no address
\* configured sends nothing and changes nothing.
C24_AtLeastOnce ==
    /\ (<>[](serverAddress # <<>> /\ serverUp) /\ []Running) =>
          /\ \A id \in 1..MaxLivePosts + 1 : [](InCache(id) => <>(id \in acked))
          /\ [](resultCache # <<>> => <>(resultCache = <<>>))
    /\ [][(lastPass' # lastPass /\ (resultCache = <<>> \/ serverAddress = <<>>)) =>
             /\ lastPass' = [kind |-> "idle", attempts |-> <<>>]
             /\ UNCHANGED <<resultCache, cacheFile, acked, posts>>]_vars

\* C24's case: two payloads were cached while the server failed, and a pass
\* made after it came back delivered both
C24_Witness ==
    /\ serverUp /\ serverAddress # <<>>
    /\ lastPass = [kind |-> "pass",
                   attempts |-> <<[id |-> 1, resp |-> "200"], [id |-> 2, resp |-> "200"]>>]
    /\ acked = {1, 2}
    /\ resultCache = <<>>
    /\ posts[1].err \in CachedErrors /\ posts[2].err \in CachedErrors

\* C25 as stated: once the cache has changed, the cache file holds a JSON
\* array with exactly the entries of the cache in memory, in the same order:
\* the empty array when the cache is empty.
C25_FileMirrorsCache ==
    \/ cacheFile = NoFile /\ resultCache = <<>> /\ lastPass.kind # "pass"
    \/ cacheFile = [kind |-> "array", elems |-> resultCache]

\* the step in which MeasureThrow returns does to the log what C26 says: a
\* success appends one record at the end, with the coordinate, the distance,
\* the circle type and the echo of the reading; a failure appends none
MeasureThrowLogs ==
    (ret = NoRet /\ ret'.op = "MeasureThrow") =>
        IF ret'.err = ""
        THEN LET rec == throwCoordinates'[Len(throwCoordinates')]
                 cal == ret'.before.store[ret'.devType]
             IN  /\ throwCoordinates' = throwCoordinates \o <<rec>>
                 /\ rec.CircleType = cal.SelectedCircleType
                 /\ rec.EDMReading = <<RoundHalfEven(ret'.reading.SlopeDistanceMm),
                                       ret'.reading.VAzDecimal, ret'.reading.HARDecimal>>
                 /\ rec.Distance = Hypot(rec.X, rec.Y) - cal.TargetRadius
                 /\ ret'.detail = <<[text |-> "%.2f m", cm |-> FormatCm(rec.Distance)]>>
        ELSE throwCoordinates' = throwCoordinates

\* C26 as stated: a successful MeasureThrow appends exactly one record at the
\* end of the log, a failed one appends none, and no step removes or alters
\* a record of the log.
C26_ThrowLogAppendOnly ==
    [][/\ MeasureThrowLogs
       /\ Len(throwCoordinates') >= Len(throwCoordinates)
       /\ SubSeq(throwCoordinates', 1, Len(throwCoordinates)) = throwCoordinates]_vars

\* C26 amended: a successful MeasureThrow appends exactly one record at the
\* end of the log, a failed one appends none, ClearThrowCoordinates empties
\* the log, and no other step changes it.
C26_ThrowLogAppendOrClear ==
    [][/\ MeasureThrowLogs
       /\ (ret = NoRet /\ ret'.op = "ClearThrowCoordinates") => throwCoordinates' = <<>>
       /\ ~(ret = NoRet /\ ret'.op \in {"MeasureThrow", "ClearThrowCoordinates"})
             => throwCoordinates' = throwCoordinates]_vars

\* C26's case: a second throw, another one than the first, has just been
\* appended to the log
C26_Witness ==
    /\ ret.op = "MeasureThrow" /\ ret.err = ""
    /\ Len(throwCoordinates) = 2
    /\ throwCoordinates[1] # throwCoordinates[2]
    /\ throwCoordinates[2].EDMReading = <<RoundHalfEven(ret.reading.SlopeDistanceMm),
                                          ret.reading.VAzDecimal, ret.reading.HARDecimal>>

\* ------------------------------------------------------------------------
\* Demo readings and the synthetic station
\* ------------------------------------------------------------------------

\* the operations that acquire a reading
AcquiringOps == {"GetReliableEDMReading", "SetCircleCentre", "VerifyCircleEdge",
                 "MeasureThrow"}

\* the readings the generators derive from the station of role r in dm: of
\* the centre, of the edge and of a throw, for every circle type
StationReadings(dm, r) ==
    {generateDemoCentreReading(dm, r, 1).reading}
    \cup {generateDemoEdgeReading(dm, r, UkaDefault(t), 1).reading : t \in CircleTypes}
    \cup {generateDemoThrowReading(dm, r, UkaDefault(t), t, 1).reading : t \in CircleTypes}

\* C27: in demo mode, once a role has a synthetic station, every reading an
\* acquisition returns for the role (the acquirer called on its own, the
\* centre, the edge, a throw) is derived from that station, and the station
\* stays where it is until the simulation of the role is reset
C27_DemoReadingsFromStation ==
    [][\A r \in EdmRoles :
          /\ (Has(demoSim, r) /\ Has(demoSim', r))
                => /\ demoSim'[r].stationX = demoSim[r].stationX
                   /\ demoSim'[r].stationY = demoSim[r].stationY
          /\ (/\ ret = NoRet /\ ret'.op \in AcquiringOps /\ ret'.devType = r
              /\ ret'.err = "" /\ ret'.isDemoMode /\ Has(demoSim', r))
                => ret'.reading \in StationReadings(demoSim', r)]_vars

\* ------------------------------------------------------------------------
\* The discus session end to end
\* ------------------------------------------------------------------------

\* MeasureThrow has returned from a call made with the discus circle
\* selected, the centre set and the edge verified in tolerance, its
\* acquisition having succeeded
DiscusThrowReturned ==
    /\ ret.op = "MeasureThrow"
    /\ Has(ret.before.store, ret.devType)
    /\ LET cal == ret.before.store[ret.devType]
       IN  /\ cal.SelectedCircleType = "DISCUS"
           /\ cal.IsCentreSet
           /\ cal.EdgeVerificationResult # Nil
           /\ cal.EdgeVerificationResult[1].IsInTolerance
    /\ ret.reading # NoParsed

\* the record the throw left in the log
DiscusThrowRecord == throwCoordinates[Len(throwCoordinates)]

\* C28: a MeasureThrow that follows SelectCircle(Discus), SetCentre and an
\* in-tolerance VerifyEdge, and whose acquisition succeeds, returns without
\* error a distance that is strictly positive and strictly less than the raw
\* slope distance of the throw reading
C28_DiscusDistanceBelowSlope ==
    DiscusThrowReturned
        => /\ ret.err = ""
           /\ Len(throwCoordinates) = Len(ret.before.log) + 1
           /\ DiscusThrowRecord.Distance > 0
           /\ DiscusThrowRecord.Distance < ret.reading.SlopeDistanceMm

\* C28 as the code has it: the throw returns without error the distance of
\* the landing point (station + offset of the reading) from the centre, less
\* the target radius; that is at least minus the target radius, and strictly
\* less than the raw slope distance plus the distance of the station from the
\* centre
C28_DiscusDistanceFromCentre ==
    DiscusThrowReturned
        => LET cal == ret.before.store[ret.devType]
               station == cal.StationCoordinates
               offset == PointOffset(ret.reading)
               d == DiscusThrowRecord.Distance
           IN  /\ ret.err = ""
               /\ Len(throwCoordinates) = Len(ret.before.log) + 1
               /\ cal.TargetRadius = UkaRadiusDiscus
               /\ d = Hypot(station.X + offset.X, station.Y + offset.Y)
                          - UkaRadiusDiscus
               /\ d >= -UkaRadiusDiscus
               /\ d < ret.reading.SlopeDistanceMm + Hypot(station.X, station.Y)
               /\ ret.detail = <<[text |-> "%.2f m", cm |-> FormatCm(d)]>>

\* a discus throw measured from a station that stands between the centre and
\* the landing point: the distance is greater than the slope distance
C28_Witness ==
    /\ DiscusThrowReturned
    /\ ~ret.isDemoMode
    /\ ret.err = ""
    /\ DiscusThrowRecord.Distance > ret.reading.SlopeDistanceMm

\* ------------------------------------------------------------------------
\* The parser of EDM lines
\* ------------------------------------------------------------------------

\* a line has been parsed
LineParsed == rawLine # <<>>

\* the fields of the line parsed
RawFields == Fields(rawLine, <<>>)

\* an angle field zero-padded to seven characters
Padded(a) == IF Len(a) = 6 THEN <<"0">> \o a ELSE a

\* a field of 6 or 7 decimal digits
DigitAngle(a) == Len(a) \in {6, 7} /\ IsDigits(a)

\* the minutes and the seconds of a field of 6 or 7 digits
MinutesOf(a) == DecVal(SubSeq(Padded(a), 4, 5))
SecondsOf(a) == DecVal(SubSeq(Padded(a), 6, 7))

\* a DDDMMSS angle: 6 or 7 digits, the minutes and the seconds below 60
SexagesimalAngle(a) == DigitAngle(a) /\ MinutesOf(a) < 60 /\ SecondsOf(a) < 60

\* degrees + minutes/60 + seconds/3600, in half arc-seconds
DegreesOf(a) ==
    2 * (DecVal(SubSeq(Padded(a), 1, 3)) * 3600 + MinutesOf(a) * 60 + SecondsOf(a))

\* the lines the parser is to accept
WellFormedLine ==
    /\ Len(RawFields) >= 4
    /\ ParseFloat(RawFields[1]).ok
    /\ SexagesimalAngle(RawFields[2])
    /\ SexagesimalAngle(RawFields[3])

\* a field that is not of the characters of its kind
NonNumericField ==
    /\ Len(RawFields) >= 4
    /\ \/ ~ParseFloat(RawFields[1]).ok
       \/ \E i \in 2..3 : \E k \in 1..Len(RawFields[i]) :
             RawFields[i][k] \notin Digits \cup {"+", "-"}

\* the first fault of the line is minutes or seconds of 60 or more
AngleOutOfRange ==
    /\ Len(RawFields) >= 4
    /\ ParseFloat(RawFields[1]).ok
    /\ DigitAngle(RawFields[2]) /\ DigitAngle(RawFields[3])
    /\ ~(SexagesimalAngle(RawFields[2]) /\ SexagesimalAngle(RawFields[3]))

\* C29: the parser accepts a line exactly when it has at least 4 fields, a
\* numeric field 0 and 6- or 7-digit DDDMMSS angles with minutes and seconds
\* below 60 in fields 1 and 2; it maps field 0 to the slope distance and the
\* angles to degrees + minutes/60 + seconds/3600, a 6-digit angle as its
\* zero-padded form; a short line or a non-numeric field is a malformed
\* response, minutes or seconds of 60 or more an invalid angle
C29_ParseEDMLine ==
    LineParsed
        => /\ (parsedLine.err = "") <=> WellFormedLine
           /\ WellFormedLine
                 => parsedLine.reading =
                       [SlopeDistanceMm |-> ParseFloat(RawFields[1]).val,
                        VAzDecimal |-> DegreesOf(RawFields[2]),
                        HARDecimal |-> DegreesOf(RawFields[3])]
           /\ (Len(RawFields) < 4 \/ NonNumericField)
                 => parsedLine.err = "malformed response"
           /\ AngleOutOfRange
                 => parsedLine.err = "invalid angle values (MM or SS >= 60)"

\* ------------------------------------------------------------------------
\* The timestamp of a calibration record
\* ------------------------------------------------------------------------

\* the operation op returns without error for role r in this step
ReturnsFor(op, r) ==
    ret = NoRet /\ ret'.op = op /\ ret'.devType = r /\ ret'.err = ""

\* C30: every successful centre update and every successful edge update sets
\* the timestamp of the role's record to the time of the update, and a
\* circle-type change leaves the timestamp of an existing record as it was
C30_TimestampRefreshed ==
    [][\A r \in EdmRoles :
          /\ ReturnsFor("SetCircleCentre", r)
                => CalibrationStore'[r].Timestamp = now'
          /\ ReturnsFor("VerifyCircleEdge", r)
                => CalibrationStore'[r].Timestamp = now'
          /\ (ReturnsFor("SaveCalibration", r) /\ Has(CalibrationStore, r))
                => CalibrationStore'[r].Timestamp = CalibrationStore[r].Timestamp]_vars

\* ------------------------------------------------------------------------
\* The listener and the disconnect
\* ------------------------------------------------------------------------

\* C31: once DisconnectDevice has returned for the wind gauge, the listener of
\* the connection it closed appends no sample to the wind buffer, wherever the
\* listener was when the disconnect began
C31_NoSampleAfterDisconnect ==
    [][\A i \in 1..Len(listeners) :
          (listeners[i].cancelled /\ listeners'[i] # listeners[i])
             => windBuffer' = windBuffer]_vars

\* ------------------------------------------------------------------------
\* Calibration updates that overlap
\* ------------------------------------------------------------------------

\* SetCircleCentre or VerifyCircleEdge stores its record in this step
CalibrationStored ==
    /\ call.kind \in {"SetCircleCentre", "VerifyCircleEdge"}
    /\ call.pc = "commit"
    /\ call' = Idle
    /\ ret'.err = ""

\* C32: the final store of SetCircleCentre or VerifyCircleEdge does not undo
\* a reset or a circle-type change that completed since the operation
\* captured the record: a record deleted meanwhile does not reappear, and the
\* record keeps the circle type and the radius the store has
C32_NoStaleWriteBack ==
    [][CalibrationStored
          => LET r == call.devType
             IN  /\ (Has(call.before.store, r) /\ ~Has(CalibrationStore, r))
                       => ~Has(CalibrationStore', r)
                 /\ Has(CalibrationStore, r)
                       => /\ CalibrationStore'[r].SelectedCircleType =
                                CalibrationStore[r].SelectedCircleType
                          /\ CalibrationStore'[r].TargetRadius =
                                CalibrationStore[r].TargetRadius]_vars

\* ------------------------------------------------------------------------
\* The synthetic station and the stored station
\* ------------------------------------------------------------------------

\* a synthetic edge or throw reading is generated in this step for a record
\* whose centre is set
DemoReadingGenerated ==
    /\ call.kind \in {"VerifyCircleEdge", "MeasureThrow"}
    /\ call.pc = "demo"
    /\ call'.pc = "commit"
    /\ call.cal.IsCentreSet

\* C33: in demo mode, the synthetic station from which an edge or throw
\* reading is generated for a record whose centre is set is the station from
\* which the station coordinates of the record were derived
C33_SameSyntheticStation ==
    [][DemoReadingGenerated
          => call.cal.StationCoordinates =
                StationFrom(generateDemoCentreReading(demoSim', call.devType, 1).reading)]_vars

\* ------------------------------------------------------------------------
\* Demo calibrations and real measurements
\* ------------------------------------------------------------------------

\* the record of role r has its centre from the synthetic centre reading of
\* the simulation of r
SyntheticCalibration(store, sim, r) ==
    /\ Has(store, r) /\ store[r].IsCentreSet
    /\ Has(sim, r) /\ sim[r].centreReading # Nil
    /\ store[r].StationCoordinates = StationFrom(sim[r].centreReading[1])

\* C34: a MeasureThrow outside demo mode, called on a record whose calibration
\* comes from synthetic readings, computes no distance: it returns an error
\* and logs no throw
C34_NoThrowFromDemoCalibration ==
    (/\ ret.op = "MeasureThrow"
     /\ ~ret.isDemoMode
     /\ SyntheticCalibration(ret.before.store, ret.before.sim, ret.devType))
        => /\ ret.err # ""
           /\ throwCoordinates = ret.before.log

\* ------------------------------------------------------------------------
\* The order of deliveries
\* ------------------------------------------------------------------------

\* C35: the payloads being the successive results of one athlete in one
\* event, numbered in the order of their PostResult calls, the server never
\* gets an older one after a newer one: whatever is delivered in a step is
\* newer than everything delivered before
C35_NoOlderAfterNewer ==
    [][\A i \in acked' \ acked : \A j \in acked : j < i]_vars

\* ------------------------------------------------------------------------
\* The address of a retry
\* ------------------------------------------------------------------------

\* the retry loop takes its turn in this step, with payloads in the cache
RetryTurn ==
    /\ Len(resultCache) > 0
    /\ posts' = posts
    /\ serverAddress' = serverAddress
    /\ lastPass' # lastPass \/ resultCache' # resultCache

\* C36: at every turn of the retry loop each cached payload is sent again, to
\* the address its PostResult call was given, whether or not SetServerAddress
\* was called and whatever address it was called with
C36_RetryToAddressOfCall ==
    [][RetryTurn
          => /\ lastPass'.kind = "pass"
             /\ \A k \in 1..Len(resultCache) :
                   posts[resultCache[k]].addr = serverAddress]_vars

\* ------------------------------------------------------------------------
\* Commands and their responses
\* ------------------------------------------------------------------------

\* C37: the line a read takes from the connection is the response to the
\* command written in the same exchange, the last one written
C37_ResponseOfSameExchange ==
    [][(wire.inbox # <<>> /\ wire'.inbox = Tail(wire.inbox))
          => Head(wire.inbox) = wire.sent]_vars

\* ------------------------------------------------------------------------
\* Listeners and their connections
\* ------------------------------------------------------------------------

\* C38: a listener reads only the connection whose Connect call started it
\* (the i-th listener the i-th connection), so that no connection is read by
\* two listeners
C38_ListenerReadsOwnConnection ==
    \A i \in 1..Len(listeners) : listeners[i].conn \in {0, i}

\* ------------------------------------------------------------------------
\* Order of the values on the scoreboard
\* ------------------------------------------------------------------------

\* the value of a measurement, not the "88:88" test pattern of a Connect
MeasuredValue(t) == t.text # "88:88"

\* the goroutine of the i-th pending value runs in this step and its value
\* reaches the scoreboard for the first time
WritesPending(i) ==
    /\ i \in 1..Len(sbTasks)
    /\ sbTasks' = SubSeq(sbTasks, 1, i - 1) \o SubSeq(sbTasks, i + 1, Len(sbTasks))
    /\ sbTasks[i] \notin sbWritten
    /\ sbTasks[i] \in sbWritten'

\* C39: values reach the scoreboard in the order their measurements
\* completed: the value of a measurement is not written while the different
\* value of a measurement that returned earlier is still waiting to be sent
C39_ScoreboardInMeasurementOrder ==
    [][\A i \in 1..Len(sbTasks) :
          (WritesPending(i) /\ MeasuredValue(sbTasks[i]))
             => \A j \in 1..(i - 1) :
                   MeasuredValue(sbTasks[j]) => sbTasks[j] = sbTasks[i]]_vars

\* ------------------------------------------------------------------------
\* The horizontal angle of an averaged reading
\* ------------------------------------------------------------------------

\* 360 degrees, in the unit of HARDecimal
FullCircle == 360 * 7200

\* the angle from a round to b, clockwise
ArcFrom(a, b) == (b - a) % FullCircle

\* h is on the shorter of the two arcs between a and b
OnShorterArc(h, a, b) ==
    \/ ArcFrom(a, b) <= FullCircle \div 2 /\ ArcFrom(a, h) <= ArcFrom(a, b)
    \/ ArcFrom(b, a) <= FullCircle \div 2 /\ ArcFrom(b, h) <= ArcFrom(b, a)

\* C40: the horizontal angle of an averaged reading lies on the shorter arc
\* between the horizontal angles of the two raw readings it was averaged
\* from (359 and 1 degree give 0 degrees, not 180)
C40_AverageOnShorterArc ==
    (ret.op = "GetReliableEDMReading" /\ ret.err = "" /\ ~ret.isDemoMode) =>
        OnShorterArc(ret.reading.HARDecimal, ret.r1.HARDecimal, ret.r2.HARDecimal)

====
